---- MODULE Spec2Model ----
(***************************************************************************)
(* The sketch layer of PlayfulEnvironmentDesigner (src/unnamed/part_000,   *)
(* second copy of the component, lines 727-2005): the drawing / undo       *)
(* engine on the <canvas>, the eyedropper, and the mask builder.           *)
(*                                                                         *)
(* Representation.                                                         *)
(*  - The sketch raster is one row of NCells cells; a cell is an RGBA      *)
(*    pixel with 8-bit channels, as ctx.getImageData reports it.           *)
(*  - A "#rrggbb" colour string is the sequence of its six hex digits.     *)
(*  - brushOpacity is kept in hundredths (0.6 is 60): every value the      *)
(*    program produces has at most two decimals (slider step 0.05,         *)
(*    toFixed(2)).                                                         *)
(*  - A PNG snapshot (canvas.toDataURL) is the raster it encodes.          *)
(*  - An <img> decode that has been started and whose onload has not yet   *)
(*    run is an entry of pendingRestores; a FileReader read in flight is   *)
(*    an entry of pendingReads.                                            *)
(***************************************************************************)
EXTENDS Integers, Sequences, FiniteSets, TLC

\* ------------------------------------------------------------- bounds
NCells       == 2    \* cells of the sketch raster
MaxDowns     == 2    \* Spec: pointer-downs in one run
MaxPath      == 3    \* points of one path (the pointer-down gives two)
MaxReads     == 1    \* FileReader reads in flight at once
OverlapReads == 2    \* SpecReads: FileReader reads in flight at once
DeepExtra    == 2    \* SpecDeep: pointer-downs beyond MAX_UNDO_STATES
DeepRestores == 1    \* SpecDeep: snapshot decodes in flight at once
DeepVaried   == 3    \* SpecDeep: tool and cell are chosen for the first strokes
PickDowns    == 1    \* SpecPick: pointer-downs in one run
GenDowns     == 2    \* SpecGen: pointer-downs in one run
PageDowns    == 1    \* SpecPage: pointer-downs in one run
FailDowns    == 2    \* SpecFail: pointer-downs in one run
MaxInFlight  == 2    \* SpecPage: decodes and fetches of the page in flight
MaxPosts     == 3    \* SpecPage: clicks that start a request in one run

\* ------------------------------------------------- program constants
MAX_UNDO_STATES == 15
DEFAULT_BRUSH_COLOR == <<0, 0, 12, 8, 15, 15>>      \* "#00c8ff"
INITIAL_BRUSH_OPACITY == 60                          \* useState(0.6)
MAX_PREVIEW_DIMENSION == 1024
TOOL_OPTIONS == {"brush", "eraser", "eyedropper"}

Cells == 1..NCells
Transparent == [r |-> 0, g |-> 0, b |-> 0, a |-> 0]
EmptyRaster == [c \in Cells |-> Transparent]

Min(x, y) == IF x < y THEN x ELSE y
Max(x, y) == IF x > y THEN x ELSE y

Top(stack) == stack[Len(stack)]
Without(seq, i) == [j \in 1..(Len(seq) - 1) |-> seq[IF j < i THEN j ELSE j + 1]]

\* ---------------------------------------------- colour / pixel utilities
\* Lines 762-780.  Anything but 3 or 6 digits gives the fallback colour;
\* three digits are doubled.
hexToRgb(hex) ==
    IF Len(hex) \notin {3, 6}
    THEN [r |-> 0, g |-> 200, b |-> 255]
    ELSE LET expanded == IF Len(hex) = 3
                         THEN <<hex[1], hex[1], hex[2], hex[2], hex[3], hex[3]>>
                         ELSE hex
         IN [r |-> expanded[1] * 16 + expanded[2],
             g |-> expanded[3] * 16 + expanded[4],
             b |-> expanded[5] * 16 + expanded[6]]

\* Lines 783-786: clamp to 0..255, two hex digits, zero padded.
toHex(value) ==
    LET v == Max(0, Min(255, value))
    IN <<v \div 16, v % 16>>

rgbToHex(r, g, b) == toHex(r) \o toHex(g) \o toHex(b)

\* Lines 790-793.  alpha stays in hundredths.
rgbaFromHex(hex, alpha) ==
    LET c == hexToRgb(hex) IN [r |-> c.r, g |-> c.g, b |-> c.b, alpha |-> alpha]

\* The 8-bit alpha the canvas gives a CSS colour rgba(r, g, b, alpha):
\* round(alpha * 255), alpha in hundredths.
StyleAlpha(style) == (style.alpha * 255 + 50) \div 100

\* Mutant of SampledOpacity: the quotient is truncated, not rounded.
SampledOpacityTruncated(a) == (100 * a) \div 255

\* Number((a / 255).toFixed(2)) in hundredths, line 1023.  a / 255 is never
\* half way between two hundredths (2000 a is even, 255 (2 m + 1) is odd), so
\* the rounding is the same in every implementation.
SampledOpacity(a) == (200 * a + 255) \div 510

\* One pixel drawn over another under ctx.globalCompositeOperation.
\* source-over: the usual Porter-Duff "over" on non-premultiplied 8-bit RGBA;
\* destination-out: the destination keeps its colour and loses the share
\* src.a / 255 of its alpha.  A pixel whose alpha reaches 0 reads back as
\* transparent black.
BlendSourceOver(dst, src) ==
    LET keep == dst.a * (255 - src.a)
        oa255 == src.a * 255 + keep
        oa == (oa255 + 127) \div 255
        ch(s, d) == (s * src.a * 255 + d * keep + (oa255 \div 2)) \div oa255
    IN IF oa = 0 THEN Transparent
       ELSE [r |-> ch(src.r, dst.r), g |-> ch(src.g, dst.g),
             b |-> ch(src.b, dst.b), a |-> oa]

BlendDestinationOut(dst, src) ==
    LET oa == (dst.a * (255 - src.a) + 127) \div 255
    IN IF oa = 0 THEN Transparent ELSE [dst EXCEPT !.a = oa]

Blend(dst, src, op) ==
    IF op = "destination-out" THEN BlendDestinationOut(dst, src)
    ELSE BlendSourceOver(dst, src)

\* ----------------------------------------------------------- mask builder
Black == [r |-> 0, g |-> 0, b |-> 0, a |-> 255]
White == [r |-> 255, g |-> 255, b |-> 255, a |-> 255]

\* String.prototype.trim on the prompts of the model.
trim(text) == IF text = " " THEN "" ELSE text

\* baseImage.naturalWidth, lines 1416 and 1458: file n is n times as wide as
\* it is displayed (the sketch canvas has the displayed width, line 1138).
NaturalWidth(src) == src * NCells

\* drawImage(canvas, 0, 0, width, height): the sketch stretched to the width
\* of the mask, each destination pixel taking the source cell it falls in.
ScaledSketch(bitmap, width) ==
    [j \in 1..width |-> bitmap[((j - 1) * NCells) \div width + 1]]

\* Lines 1426-1428: opaque black, the sketch drawn over it (a new context
\* composites source-over).
MaskComposite(bitmap, width) ==
    [j \in 1..width |-> BlendSourceOver(Black, ScaledSketch(bitmap, width)[j])]

\* Lines 1429-1446: the alpha of the composite decides white or black.
BuildMask(bitmap, width) ==
    LET data == MaskComposite(bitmap, width)
    IN [j \in 1..width |-> IF data[j].a > 0 THEN White ELSE Black]

\* ------------------------------------------------------ preview downscaler
\* Sizes are pairs <<width, height>> in pixels.
NoSize == <<0, 0>>

\* IEEE 754 double arithmetic, the arithmetic of JavaScript numbers, on the
\* numbers createPreview meets (sizes below 2^17 pixels).  A long number
\* is a sequence of limbs of LimbBits bits, most significant first; a
\* significand is a leading limb 1 and four more limbs.
SignificandBits == 53
LimbBits == (SignificandBits - 1) \div 4
Limb == 2 ^ LimbBits

\* n limbs of r / d after the point (0 <= r < d), and the remainder.
RECURSIVE FractionLimbs(_, _, _)
FractionLimbs(r, d, n) ==
    IF n = 0 THEN [limbs |-> <<>>, rem |-> r]
    ELSE LET rest == FractionLimbs((r * Limb) % d, d, n - 1)
         IN [limbs |-> <<(r * Limb) \div d>> \o rest.limbs, rem |-> rest.rem]

\* limbs + 1; the leading limb takes the last carry.
RECURSIVE Increment(_)
Increment(limbs) ==
    LET n == Len(limbs)
    IN IF n = 1 \/ limbs[n] < Limb - 1
       THEN [limbs EXCEPT ![n] = @ + 1]
       ELSE Increment(SubSeq(limbs, 1, n - 1)) \o <<0>>

\* The smallest t with 2^t * num >= den.
RECURSIVE Shift(_, _)
Shift(num, den) == IF num >= den THEN 0 ELSE 1 + Shift(2 * num, den)

\* The double num / den for 0 < num < den: sig * 2^-(52 + shift), rounded to
\* nearest, ties to even.
DivideDouble(num, den) ==
    LET t == Shift(num, den)
        lead == num * 2 ^ t
        q == FractionLimbs(lead - den, den, 4)
        sig == <<1>> \o q.limbs
        up == 2 * q.rem > den \/ (2 * q.rem = den /\ sig[5] % 2 = 1)
    IN [sig |-> IF up THEN Increment(sig) ELSE sig, shift |-> t]

\* The limbs of n times the number limbs spells.
RECURSIVE TimesLimbs(_, _, _)
TimesLimbs(limbs, n, carry) ==
    IF limbs = <<>>
    THEN IF carry = 0 THEN <<>>
         ELSE TimesLimbs(<<>>, n, carry \div Limb) \o <<carry % Limb>>
    ELSE LET k == Len(limbs)
             acc == n * limbs[k] + carry
         IN TimesLimbs(SubSeq(limbs, 1, k - 1), n, acc \div Limb) \o <<acc % Limb>>

\* The bits of the number limbs spells, most significant first, from its
\* first 1 on.
Bits(limbs) ==
    LET all == [j \in 1..(LimbBits * Len(limbs)) |->
                  (limbs[(j - 1) \div LimbBits + 1]
                      \div 2 ^ (LimbBits - 1 - ((j - 1) % LimbBits))) % 2]
        ones == {j \in 1..Len(all) : all[j] = 1}
    IN IF ones = {} THEN <<>>
       ELSE SubSeq(all, CHOOSE j \in ones : \A k \in ones : j <= k, Len(all))

RECURSIVE BitsValue(_)
BitsValue(bits) ==
    IF bits = <<>> THEN 0
    ELSE 2 * BitsValue(SubSeq(bits, 1, Len(bits) - 1)) + bits[Len(bits)]

\* What canvas.width keeps of the double n * x, x = sig * 2^-(52 + shift):
\* the product is rounded to 53 bits (nearest, ties to even), and the
\* assignment to the unsigned long attribute drops its fraction.  Rounding
\* up reaches the integer part when every kept bit of the fraction is 1.
TimesDoubleTruncated(n, x) ==
    LET product == Bits(TimesLimbs(x.sig, n, 0))
        len == Len(product)
        kept == SubSeq(product, 1, Min(len, SignificandBits))
        dropped == SubSeq(product, SignificandBits + 1, len)
        half == dropped # <<>> /\ dropped[1] = 1
        sticky == \E i \in 2..Len(dropped) : dropped[i] = 1
        up == half /\ (sticky \/ kept[SignificandBits] = 1)
        intLen == len - (SignificandBits - 1) - x.shift
        whole == IF intLen <= 0 THEN 0 ELSE BitsValue(SubSeq(product, 1, intLen))
        carries == \A i \in (Max(intLen, 0) + 1)..Len(kept) : kept[i] = 1
    IN IF up /\ carries /\ intLen >= 0 THEN whole + 1 ELSE whole

\* Lines 862-866: the size of the canvas createPreview draws a width x
\* height image on.  Math.min(1, ...) is exactly 1 up to 1024 pixels.
PreviewSize(width, height) ==
    LET larger == Max(width, height)
    IN IF larger <= MAX_PREVIEW_DIMENSION THEN <<width, height>>
       ELSE LET scale == DivideDouble(MAX_PREVIEW_DIMENSION, larger)
            IN <<TimesDoubleTruncated(width, scale),
                 TimesDoubleTruncated(height, scale)>>

\* The files of the model: file n holds an image of natural size Pictures[n].
Pictures ==
    <<<<800, 600>>, <<2000, 1000>>, <<500, 300>>, <<1122, 561>>,
      <<1024, 1024>>, <<1025, 1025>>, <<1024, 768>>, <<768, 1025>>,
      <<3000, 4000>>, <<1, 1>>, <<1138, 640>>, <<1388, 1388>>,
      <<1151, 2000>>, <<4032, 3024>>, <<1429, 1000>>, <<1023, 1024>>>>
NaturalSize(file) == Pictures[file]

\* Line 1635, "block w-full": the <img> is as wide as its container and
\* keeps the aspect ratio of the image, to the nearest pixel.
ClientSize(natural, width) ==
    <<width, (2 * width * natural[2] + natural[1]) \div (2 * natural[1])>>

\* ------------------------------------------------------------------ state
VARIABLES
    imageSrc,         \* useState: 0 is "", n > 0 the data URL of file n
    raster,           \* the <canvas> bitmap (all transparent while unmounted)
    gco,              \* ctx.globalCompositeOperation
    strokeStyle,      \* ctx.strokeStyle
    path,             \* the points of the ctx's current path
    drawingState,     \* useRef: [active]; lastX / lastY are written, never read
    undoStackRef,     \* useRef: the snapshots, oldest first
    tool, brushColor, brushOpacity, hasSketch, canUndo,     \* useState
    pendingRestores,  \* restoreCanvasState: decodes whose onload has not run
    pendingReads,     \* handleImageUpload: FileReader reads in flight
    imagePrompt, imageGenerationStatus,                     \* useState
    lastRequest,      \* the arguments of the last requestConceptImage call
    env,              \* the NEXT_PUBLIC_ENABLE_* flags of the build
    imageRef,         \* the <img>: natural and client size in pixels
    canvasSize,       \* canvas.width and canvas.height
    coords,           \* the last pointer-down: its offset, its getCanvasCoords
    previews,         \* createPreview: decodes whose onload / onerror has not run
    requests,         \* fetch calls of the page whose response has not come
    generatedImage, conceptSourceImage, refinePrompt, refinementLog,  \* useState
    response, scoreStatus, autoDescriptionStatus,                     \* useState
    scoreSummary, location,                                           \* useState
    rasterThrows,     \* reads of the sketch canvas (getImageData, toDataURL) throw
    uncaught,         \* an exception has left a handler
    proxy,            \* one invocation of an API route (pages/api)
    lastEvent,        \* history: the handler that ran last and its input
    used,             \* history: how many pointer-downs ran
    session,          \* history: the strokes and undos since the upload
    lim               \* the bounds of the specification being checked

ctxVars == <<raster, gco, strokeStyle, path>>
brushVars == <<tool, brushColor, brushOpacity>>
genVars == <<imagePrompt, imageGenerationStatus, lastRequest, env>>
sizeVars == <<imageRef, canvasSize>>
netVars == <<previews, requests, generatedImage, conceptSourceImage,
             refinePrompt, refinementLog, response, scoreStatus,
             autoDescriptionStatus, scoreSummary, location>>
failVars == <<rasterThrows, uncaught>>
pageVars == <<coords, netVars, failVars, proxy>>
sketchVars == <<imageSrc, ctxVars, drawingState, undoStackRef, brushVars,
                hasSketch, canUndo, pendingRestores, pendingReads>>
vars == <<imageSrc, raster, gco, strokeStyle, path, drawingState, undoStackRef,
          tool, brushColor, brushOpacity, hasSketch, canUndo,
          pendingRestores, pendingReads, imagePrompt, imageGenerationStatus,
          lastRequest, env, lastEvent, used, session, lim,
          imageRef, canvasSize, coords, previews, requests, generatedImage,
          conceptSourceImage, refinePrompt, refinementLog, response,
          scoreStatus, autoDescriptionStatus, scoreSummary, location,
          rasterThrows, uncaught, proxy>>

\* No image is shown: imageRef.current and canvasRef.current are null.
NoImage == [naturalWidth |-> 0, naturalHeight |-> 0,
            clientWidth |-> 0, clientHeight |-> 0]
NoCanvas == [width |-> 0, height |-> 0]
NoCoords == [at |-> <<0, 0>>,
             x |-> [num |-> 0, den |-> 1], y |-> [num |-> 0, den |-> 1]]

\* The body and the query of a request to an API route, field by field;
\* "" is a field that is missing.
NoReq == [method |-> "", prompt |-> "", location |-> "", mode |-> "",
          imageData |-> "", baseImageData |-> "", maskData |-> "",
          lat |-> "", lon |-> ""]

\* No API route is running.
NoProxy == [route |-> "", keys |-> FALSE, req |-> NoReq, pc |-> "idle",
            sent |-> <<>>, calls |-> 0]

\* A context as getContext("2d") first returns it, and as an assignment to
\* canvas.width leaves it.
DefaultStrokeStyle == [r |-> 0, g |-> 0, b |-> 0, alpha |-> 100]

\* Line 1627: the <canvas> is rendered, and canvasRef.current set, exactly
\* while imageSrc is non-empty.
CanvasMounted == imageSrc # 0

\* Lines 941-945: the scan of the alpha channel.
HasInk(bitmap) == \E c \in Cells : bitmap[c].a > 0

\* Lines 933-950: no canvas, a canvas without area and a getImageData that
\* throws (it is caught, line 946) all read as no ink.
canvasHasInk(mounted, bitmap) ==
    IF ~mounted \/ canvasSize.width = 0 \/ canvasSize.height = 0 \/ rasterThrows
    THEN FALSE
    ELSE HasInk(bitmap)

\* Mutant of saveCanvasState: a full stack refuses the new snapshot.
SaveDropNewest(stack, snapshot) ==
    IF Len(stack) >= MAX_UNDO_STATES THEN stack ELSE Append(stack, snapshot)

\* Lines 968-972: push, then drop the oldest when over MAX_UNDO_STATES.
saveCanvasState(stack, snapshot) ==
    LET pushed == Append(stack, snapshot)
    IN IF Len(pushed) > MAX_UNDO_STATES THEN Tail(pushed) ELSE pushed

\* Line 1000: pop() takes the newest snapshot.
PoppedSnapshot(stack) == stack[Len(stack)]
AfterPop(stack) == SubSeq(stack, 1, Len(stack) - 1)

\* ctx.stroke(): every cell the current path passes over is painted once
\* with the stroke style under the blend mode.  Subpaths of a single point
\* are not drawn; the zero-length line moveTo(c) lineTo(c) is drawn as a
\* dot (round caps).
Coverage(p) ==
    IF Len(p) < 2 THEN {}
    ELSE LET pts == {p[i] : i \in 1..Len(p)}
             lo == CHOOSE x \in pts : \A y \in pts : x <= y
             hi == CHOOSE x \in pts : \A y \in pts : x >= y
         IN lo..hi

StylePixel(style) ==
    [r |-> style.r, g |-> style.g, b |-> style.b, a |-> StyleAlpha(style)]

Stroke(bitmap, p, style, op) ==
    [c \in Cells |-> IF c \in Coverage(p)
                     THEN Blend(bitmap[c], StylePixel(style), op)
                     ELSE bitmap[c]]

\* Mutant of DrawSnapshot: the clearRect is missing.
DrawSnapshotNoClear(bitmap, snapshot, op) ==
    [c \in Cells |-> Blend(bitmap[c], snapshot[c], op)]

\* Lines 987-988: clearRect, then drawImage of the decoded snapshot under
\* the context's blend mode at that moment.
DrawSnapshot(bitmap, snapshot, op) ==
    [c \in Cells |-> Blend(Transparent, snapshot[c], op)]

Bump(kind) == used' = [used EXCEPT ![kind] = @ + 1]
\* The clicks that start a request are counted where requests are followed.
Posted == used' = IF lim.net THEN [used EXCEPT !.posts = @ + 1] ELSE used
\* History for statements about concept requests that overlap: issued
\* numbers the calls of requestConceptImage in the order they were made,
\* shown is the number of the call whose answer was the last to set the
\* image and the status (0: none yet).
PostedConcept(started) ==
    used' = IF lim.net
            THEN [used EXCEPT !.posts = @ + 1,
                              !.issued = IF started THEN @ + 1 ELSE @]
            ELSE used
\* History for statements about undos whose restores overlap: n counts the
\* undos that popped a snapshot since the last handler other than an undo,
\* a decode callback or a tool change ran, last is the snapshot the newest of
\* them popped (line 1000).  A run begins with no restore pending.
NoRun == [n |-> 0, last |-> <<>>]
RunAfter(op) ==
    IF op \in {"restored", "tool"} THEN lastEvent.run
    ELSE IF /\ op = "undo"
            /\ Len(undoStackRef) > 0
            /\ lastEvent.run.n > 0 \/ pendingRestores = <<>>
         THEN [n |-> lastEvent.run.n + 1,
               last |-> undoStackRef[Len(undoStackRef)]]
    ELSE NoRun

Event(op, cell) == lastEvent' = [op |-> op, cell |-> cell, run |-> RunAfter(op)]

\* History for statements about "N completed strokes, then undos, each
\* decode finishing before the next operation": ok while the run since the
\* upload has been exactly that, n the strokes completed, k the undos.
\* Kept only by the specifications that ask for it (lim.track).
NoSession == [ok |-> FALSE, n |-> 0, k |-> 0]
FreshSession == [ok |-> TRUE, n |-> 0, k |-> 0]
Broken == [session EXCEPT !.ok = FALSE]
Track(op) ==
    session' =
        IF ~lim.track THEN session
        ELSE IF op = "restored" THEN session
        ELSE IF op = "loaded"
             THEN IF undoStackRef = <<>> /\ ~drawingState.active /\ ~hasSketch
                  THEN FreshSession ELSE NoSession
        ELSE IF op = "undo"
             THEN [ok |-> session.ok /\ ~drawingState.active
                            /\ pendingRestores = <<>>,
                   n |-> session.n, k |-> Min(session.k + 1, lim.down + 2)]
        ELSE IF pendingRestores # <<>> THEN Broken
        ELSE IF op = "stroke"
             THEN IF ~drawingState.active /\ session.k = 0
                  THEN session ELSE Broken
        ELSE IF op = "end"
             THEN IF session.ok /\ drawingState.active
                  THEN [session EXCEPT !.n = @ + 1] ELSE session
        ELSE IF op \in {"pointermove", "tool"} THEN session
        ELSE Broken

\* ---------------------------------------------------------------- actions
\* Mutant of clearCanvasLayer: the undo stack survives the clear.
ClearKeepsStack ==
    /\ raster' = EmptyRaster
    /\ UNCHANGED <<undoStackRef, canUndo>>
    /\ hasSketch' = FALSE

\* Lines 952-963, as the new values of <<raster, undoStackRef, canUndo,
\* hasSketch>>.  With no canvas mounted only the stack and the flags change.
clearCanvasLayer ==
    /\ raster' = EmptyRaster
    /\ undoStackRef' = <<>>
    /\ canUndo' = FALSE
    /\ hasSketch' = FALSE

\* Mutant of EyedropperSample: the alpha of the pixel is not looked at.
EyedropperSampleAny(pixel) ==
    /\ brushColor' = rgbToHex(pixel.r, pixel.g, pixel.b)
    /\ brushOpacity' = IF SampledOpacity(pixel.a) > 0
                       THEN SampledOpacity(pixel.a)
                       ELSE brushOpacity
    /\ tool' = "brush"

\* Lines 1019-1026: what the eyedropper does with the pixel getImageData
\* returned, as the new values of <<brushColor, brushOpacity, tool>>.
EyedropperSample(pixel) ==
    IF pixel.a > 0
    THEN /\ brushColor' = rgbToHex(pixel.r, pixel.g, pixel.b)
         /\ brushOpacity' = IF SampledOpacity(pixel.a) > 0
                            THEN SampledOpacity(pixel.a)
                            ELSE brushOpacity
         /\ tool' = "brush"
    ELSE UNCHANGED brushVars

\* Line 1639, "absolute inset-0" with no width or height rule: the canvas is
\* laid out at its intrinsic size, whatever the size of the <img> under it.
BoundingClientRect == canvasSize

\* Mutant of getCanvasCoords: the raster has the natural size of the image
\* and is laid out over the <img>.
getCanvasCoordsNatural(offset) ==
    [x |-> [num |-> offset[1] * imageRef.naturalWidth, den |-> imageRef.clientWidth],
     y |-> [num |-> offset[2] * imageRef.naturalHeight, den |-> imageRef.clientHeight]]

\* Lines 921-931, offset being <<clientX - rect.left, clientY - rect.top>>.
\* A coordinate is kept as the exact quotient num / den.
getCanvasCoords(offset) ==
    LET rect == BoundingClientRect
    IN [x |-> [num |-> offset[1] * canvasSize.width, den |-> rect.width],
        y |-> [num |-> offset[2] * canvasSize.height, den |-> rect.height]]

\* The cell of the raster the coordinates p fall in.
CellOf(p) ==
    Min(NCells, (p.x.num * NCells) \div (p.x.den * canvasSize.width) + 1)

\* Lines 1009-1042: c is the cell and p the offset of the event with the
\* coordinates getCanvasCoords gives for it.  Neither the getImageData of
\* the eyedropper (line 1018) nor the
\* toDataURL of saveCanvasState (line 968) is inside a try: when it throws,
\* the handler is left at that line.
handlePointerDown(c, p) ==
    /\ CanvasMounted
    /\ used.down < lim.down
    /\ Bump("down")
    /\ Event("pointerdown", c)
    /\ coords' = p
    /\ IF rasterThrows
       THEN /\ uncaught' = TRUE
            /\ Track("threw")
            /\ UNCHANGED <<brushVars, ctxVars, drawingState, undoStackRef, canUndo>>
       ELSE IF tool = "eyedropper"
       THEN /\ EyedropperSample(raster[c])
            /\ Track("eyedropper")
            /\ UNCHANGED <<ctxVars, drawingState, undoStackRef, canUndo, uncaught>>
       ELSE /\ undoStackRef' = saveCanvasState(undoStackRef, raster)
            /\ canUndo' = (Len(undoStackRef') > 0)
            /\ drawingState' = [active |-> TRUE]
            /\ strokeStyle' = rgbaFromHex(brushColor, brushOpacity)
            /\ gco' = IF tool = "eraser" THEN "destination-out" ELSE "source-over"
            /\ path' = <<c, c>>
            /\ raster' = Stroke(raster, path', strokeStyle', gco')
            /\ Track("stroke")
            /\ UNCHANGED <<brushVars, uncaught>>
    /\ UNCHANGED <<imageSrc, hasSketch, pendingRestores, pendingReads, lim, genVars,
                   sizeVars, netVars, rasterThrows, proxy>>

\* A pointer-down in cell c; the coordinates are not followed.
HandlePointerDown(c) == handlePointerDown(c, coords)

\* A pointer-down at the CSS offset <<x, y>> from the corner of the canvas.
HandlePointerDownAt(offset) ==
    /\ CanvasMounted
    /\ offset[1] < BoundingClientRect.width
    /\ offset[2] < BoundingClientRect.height
    /\ handlePointerDown(CellOf(getCanvasCoords(offset)),
                         [at |-> offset] @@ getCanvasCoords(offset))

\* Lines 1044-1055.
HandlePointerMove(c) ==
    /\ CanvasMounted
    /\ drawingState.active => Len(path) < lim.path
    /\ Event("pointermove", c)
    /\ Track("pointermove")
    /\ IF ~drawingState.active
       THEN UNCHANGED ctxVars
       ELSE /\ path' = Append(path, c)
            /\ raster' = Stroke(raster, path', strokeStyle, gco)
            /\ UNCHANGED <<gco, strokeStyle>>
    /\ UNCHANGED <<imageSrc, drawingState, undoStackRef, brushVars, hasSketch,
                   canUndo, pendingRestores, pendingReads, used, lim, genVars,
                   sizeVars, pageVars>>

\* Mutant of endStroke: the snapshot is taken when the stroke ends.
EndStrokeSaves(ev) ==
    /\ CanvasMounted
    /\ Event(ev, 0)
    /\ Track("end")
    /\ IF ~drawingState.active
       THEN UNCHANGED <<drawingState, ctxVars, hasSketch, undoStackRef, canUndo>>
       ELSE /\ drawingState' = [active |-> FALSE]
            /\ path' = IF Len(path) > 0 THEN Append(path, path[1]) ELSE path
            /\ gco' = "source-over"
            /\ hasSketch' = canvasHasInk(CanvasMounted, raster)
            /\ undoStackRef' = saveCanvasState(undoStackRef, raster)
            /\ canUndo' = TRUE
            /\ UNCHANGED <<raster, strokeStyle>>
    /\ UNCHANGED <<imageSrc, brushVars, pendingRestores, pendingReads, used, lim, genVars,
                   sizeVars, pageVars>>

\* Mutant of endStroke: a cancelled stroke is dropped, not finished.
EndStrokeCancelDrops(ev) ==
    /\ CanvasMounted
    /\ Event(ev, 0)
    /\ Track("end")
    /\ IF ~drawingState.active
       THEN UNCHANGED <<drawingState, ctxVars, hasSketch>>
       ELSE IF ev = "pointercancel"
       THEN /\ drawingState' = [active |-> FALSE]
            /\ UNCHANGED <<ctxVars, hasSketch>>
       ELSE /\ drawingState' = [active |-> FALSE]
            /\ path' = IF Len(path) > 0 THEN Append(path, path[1]) ELSE path
            /\ gco' = "source-over"
            /\ hasSketch' = canvasHasInk(CanvasMounted, raster)
            /\ UNCHANGED <<raster, strokeStyle>>
    /\ UNCHANGED <<imageSrc, undoStackRef, brushVars, canUndo, pendingRestores,
                   pendingReads, used, lim, genVars,
                   sizeVars, pageVars>>

\* Lines 1057-1066.  closePath adds the line back to the subpath's first
\* point.
endStroke(ev) ==
    /\ CanvasMounted
    /\ Event(ev, 0)
    /\ Track("end")
    /\ IF ~drawingState.active
       THEN UNCHANGED <<drawingState, ctxVars, hasSketch>>
       ELSE /\ drawingState' = [active |-> FALSE]
            /\ path' = IF Len(path) > 0 THEN Append(path, path[1]) ELSE path
            /\ gco' = "source-over"
            /\ hasSketch' = canvasHasInk(CanvasMounted, raster)
            /\ UNCHANGED <<raster, strokeStyle>>
    /\ UNCHANGED <<imageSrc, undoStackRef, brushVars, canUndo, pendingRestores,
                   pendingReads, used, lim, genVars,
                   sizeVars, pageVars>>

\* Lines 1068-1070.
handlePointerUp == endStroke("pointerup")
handlePointerLeave == endStroke("pointerleave")
handlePointerCancel == endStroke("pointercancel")

\* Mutant of handleUndoSketch: canUndo is left as it was after the pop.
UndoKeepsFlag ==
    /\ CanvasMounted
    /\ lim.buttons => canUndo
    /\ Len(undoStackRef) > 0 => Len(pendingRestores) < lim.restores
    /\ Event("undo", 0)
    /\ Track("undo")
    /\ IF Len(undoStackRef) = 0
       THEN /\ clearCanvasLayer
            /\ UNCHANGED pendingRestores
       ELSE /\ undoStackRef' = AfterPop(undoStackRef)
            /\ pendingRestores' = Append(pendingRestores,
                   [snapshot |-> PoppedSnapshot(undoStackRef), live |-> TRUE])
            /\ UNCHANGED <<raster, hasSketch, canUndo>>
    /\ UNCHANGED <<imageSrc, gco, strokeStyle, path, drawingState, brushVars,
                   pendingReads, used, lim, genVars,
                   sizeVars, pageVars>>

\* Lines 994-1003 with restoreCanvasState, lines 976-985 and 991: the
\* decode is started, its onload runs later (RestoreOnload).  The Undo
\* button is rendered with the canvas and disabled while canUndo is false
\* (line 1721); lim.buttons tells whether the handler is reached through the
\* button or called directly.
handleUndoSketch ==
    /\ CanvasMounted
    /\ lim.buttons => canUndo
    /\ Len(undoStackRef) > 0 => Len(pendingRestores) < lim.restores
    /\ Event("undo", 0)
    /\ Track("undo")
    /\ IF Len(undoStackRef) = 0
       THEN /\ clearCanvasLayer
            /\ UNCHANGED pendingRestores
       ELSE /\ undoStackRef' = AfterPop(undoStackRef)
            /\ pendingRestores' = Append(pendingRestores,
                   [snapshot |-> PoppedSnapshot(undoStackRef), live |-> TRUE])
            /\ canUndo' = (Len(undoStackRef') > 0)
            /\ UNCHANGED <<raster, hasSketch>>
    /\ UNCHANGED <<imageSrc, gco, strokeStyle, path, drawingState, brushVars,
                   pendingReads, used, lim, genVars,
                   sizeVars, pageVars>>

\* Lines 986-990: img.onload of the i-th decode in flight.  canvas and ctx
\* are the ones restoreCanvasState captured: when that canvas has been
\* unmounted since (live is FALSE) the drawing goes to the detached element,
\* while canvasHasInk reads canvasRef.current, the canvas mounted now.
RestoreOnload(i) ==
    /\ i \in 1..Len(pendingRestores)
    /\ Event("restored", 0)
    /\ Track("restored")
    /\ pendingRestores' = [j \in 1..(Len(pendingRestores) - 1) |->
                             pendingRestores[IF j < i THEN j ELSE j + 1]]
    /\ raster' = IF pendingRestores[i].live
                 THEN DrawSnapshot(raster, pendingRestores[i].snapshot, gco)
                 ELSE raster
    /\ hasSketch' = canvasHasInk(CanvasMounted, raster')
    /\ UNCHANGED <<imageSrc, gco, strokeStyle, path, drawingState, undoStackRef,
                   brushVars, canUndo, pendingReads, used, lim, genVars,
                   sizeVars, pageVars>>

\* Lines 1005-1007.  The Clear button is disabled while hasSketch is false
\* (line 1730).
handleClearSketch ==
    /\ CanvasMounted
    /\ lim.buttons => hasSketch
    /\ Event("clear", 0)
    /\ Track("clear")
    /\ clearCanvasLayer
    /\ UNCHANGED <<imageSrc, gco, strokeStyle, path, drawingState, brushVars,
                   pendingRestores, pendingReads, used, lim, genVars,
                   sizeVars, pageVars>>

\* A fetch of the page in flight.  image and mask are the sizes of the
\* images of the payload; reencoded tells a preview from the data URL
\* createPreview was given.
\* prompt and location are the body of a scoring request (line 1156), seq
\* the number of the post among the posts of the session.
Request(caller, mode, image, reencoded, mask) ==
    [caller |-> caller, mode |-> mode, image |-> image,
     reencoded |-> reencoded, mask |-> mask, prompt |-> "", location |-> "",
     seq |-> 0]

InFlight == Len(previews) + Len(requests)

\* ------------------------------------------ pages/api/score-interventions
\* A value the scorer gives for a rating that is not there (lines 73, 183),
\* and a rating that is there.
Null == <<>>
Numeric(n) == <<n>>

\* A field of an Airtable record: absent, a number, or a text that is no
\* number.
Absent == [type |-> "undefined", n |-> 0]
Num(n) == [type |-> "number", n |-> n]
Words == [type |-> "string", n |-> 0]

\* Lines 26-31 on the texts of this model, which are one word or blank: the
\* word in lower case, or no token.
toLowerCase(text) == IF text = "P" THEN "p" ELSE text
normalizeTokens(text) ==
    IF text \in {"", " "} THEN {} ELSE {toLowerCase(text)}

\* Lines 33-47 and 49-63 on a record whose keyword and location fields hold
\* sets of words.
extractKeywords(fields) == UNION {normalizeTokens(w) : w \in fields.Keywords}
extractLocationTokens(fields) == UNION {normalizeTokens(w) : w \in fields.Location}

\* Lines 65-74 on the one candidate field a record of this model has for
\* each rating: Number(undefined) and Number of a text that is no number
\* are NaN, which is not finite.
extractScore(fields, name) ==
    IF fields[name].type = "number" THEN Numeric(fields[name].n) ELSE Null

\* Lines 117-149: the records that match the prompt and the location, with
\* their ratings.
Matches(records, prompt, place) ==
    LET promptTokens == normalizeTokens(prompt)
        locationTokens == normalizeTokens(place)
        hit(fields) ==
            /\ extractKeywords(fields) \cap promptTokens # {}
            /\ \/ locationTokens = {}
               \/ extractLocationTokens(fields) = {}
               \/ extractLocationTokens(fields) \cap locationTokens # {}
        item(fields) == [cost |-> extractScore(fields, "Cost"),
                         ease |-> extractScore(fields, "Ease"),
                         effectiveness |-> extractScore(fields, "Effectiveness")]
        RECURSIVE walk(_)
        walk(n) == IF n = 0 THEN <<>>
                   ELSE IF hit(records[n])
                        THEN Append(walk(n - 1), item(records[n]))
                        ELSE walk(n - 1)
    IN walk(Len(records))

\* Lines 159-180: the total and the count of the finite values of a rating.
RECURSIVE SumOf(_, _)
SumOf(items, name) ==
    IF items = <<>> THEN [total |-> 0, count |-> 0]
    ELSE LET acc == SumOf(SubSeq(items, 1, Len(items) - 1), name)
             curr == items[Len(items)][name]
         IN IF curr # Null
            THEN [total |-> acc.total + curr[1], count |-> acc.count + 1]
            ELSE acc

\* Lines 182-183, in hundredths: toFixed(2) rounds the quotient to the
\* nearest hundredth.
averageOf(sum) ==
    IF sum.count # 0
    THEN Numeric((200 * sum.total + sum.count) \div (2 * sum.count))
    ELSE Null

\* Lines 151-157 and 185-193: the body of the 200 answer.  averages is Null
\* or holds the record of the three averages.
NoMatch == [matches |-> 0, averages |-> Null]
Score(records, prompt, place) ==
    LET matches == Matches(records, prompt, place)
    IN IF matches = <<>> THEN NoMatch
       ELSE [matches |-> Len(matches),
             averages |-> <<[cost |-> averageOf(SumOf(matches, "cost")),
                             ease |-> averageOf(SumOf(matches, "ease")),
                             effectiveness |->
                                 averageOf(SumOf(matches, "effectiveness"))]>>]

\* scoreSummary as constructed (line 896).  A summary stored holds the body
\* of the answer and the prompt and location that were posted for it.
NoSummary == [matches |-> 0, averages |-> Null, prompt |-> "", location |-> ""]

\* Lines 1929-1931: the three toFixed(1) calls of the summary line; a call
\* on null throws a TypeError while rendering.
RenderThrows(summary) ==
    /\ summary # NoSummary
    /\ \E name \in {"cost", "ease", "effectiveness"} :
          summary.averages[1][name] = Null

\* Mutant of ScoreEffect: the cleanup does not abort the fetch of the run
\* before.
ScoreEffectNoAbort(prompt, place, reqs) ==
    IF trim(prompt) = "" \/ ~env.GEMINI_IMAGE_ENABLED
    THEN [scoreStatus |-> "", scoreSummary |-> NoSummary, requests |-> reqs]
    ELSE [scoreStatus |-> "Scoring interventions...",
          scoreSummary |-> scoreSummary,
          requests |-> Append(reqs,
              [Request("score", "", NoSize, FALSE, NoSize)
                 EXCEPT !.prompt = prompt, !.location = place])]

\* Lines 1142-1186, the effect of a new imagePrompt or location, on the
\* requests reqs: the cleanup of the run before aborts its fetch (the
\* AbortError is swallowed, line 1176), then the prompt is scored unless it
\* is blank or the image flag is off.
ScoreEffect(prompt, place, reqs) ==
    LET kept == SelectSeq(reqs, LAMBDA r : r.caller # "score")
    IN IF trim(prompt) = "" \/ ~env.GEMINI_IMAGE_ENABLED
       THEN [scoreStatus |-> "", scoreSummary |-> NoSummary, requests |-> kept]
       ELSE [scoreStatus |-> "Scoring interventions...",
             scoreSummary |-> scoreSummary,
             requests |-> Append(kept,
                 [Request("score", "", NoSize, FALSE, NoSize)
                    EXCEPT !.prompt = prompt, !.location = place])]

\* Lines 1188-1211, a file was selected.  setImageSrc("") unmounts the
\* canvas: the decodes in flight keep the detached element, and the next
\* canvas starts with a fresh context.  drawingState is not touched.  The
\* location is emptied (line 1197), which runs the scoring effect when it
\* held a text; the EXIF lookup that may fill it again (lines 1213-1240) is
\* the SetLocation of a later step.
handleImageUpload(file) ==
    /\ Len(pendingReads) < lim.reads
    /\ Event("upload", 0)
    /\ Track("upload")
    /\ clearCanvasLayer
    /\ imageSrc' = 0
    /\ gco' = "source-over"
    /\ strokeStyle' = DefaultStrokeStyle
    /\ path' = <<>>
    /\ pendingRestores' = [j \in 1..Len(pendingRestores) |->
                             [pendingRestores[j] EXCEPT !.live = FALSE]]
    /\ pendingReads' = Append(pendingReads, file)
    /\ imageRef' = NoImage
    /\ canvasSize' = NoCanvas
    /\ generatedImage' = FALSE
    /\ conceptSourceImage' = NoSize
    /\ autoDescriptionStatus' = ""
    /\ refinementLog' = 0
    /\ location' = ""
    /\ IF location # ""
       THEN /\ scoreStatus' = ScoreEffect(imagePrompt, "", requests).scoreStatus
            /\ scoreSummary' = ScoreEffect(imagePrompt, "", requests).scoreSummary
            /\ requests' = ScoreEffect(imagePrompt, "", requests).requests
       ELSE UNCHANGED <<scoreStatus, scoreSummary, requests>>
    /\ UNCHANGED <<drawingState, brushVars, used, lim, genVars, coords,
                   previews, refinePrompt, response, failVars, proxy>>

\* Lines 1243-1246, the start of generateImageDescription: the status, and
\* a createPreview of the data URL, as the new values of
\* <<autoDescriptionStatus, previews>>.
generateImageDescription(natural) ==
    /\ autoDescriptionStatus' = "Analyzing the image..."
    /\ previews' = Append(previews, [caller |-> "describe", useInpainting |-> FALSE,
                                     input |-> natural, mask |-> NoSize,
                                     seq |-> 0])

\* Lines 1204-1210 and the effect at lines 1134-1140: reader.onload of the
\* i-th read in flight sets imageSrc.  From "" the canvas is mounted anew;
\* from another image the same canvas stays and the assignment to
\* canvas.width resets its bitmap and context; the same data URL again is no
\* state change, so the effect does not run.  The effect gives the canvas
\* the client size of the <img>, taken here as laid out with the image
\* decoded, in a container one of lim.widths wide.
ReaderOnload(i) ==
    /\ i \in 1..Len(pendingReads)
    /\ Event("loaded", 0)
    /\ Track("loaded")
    /\ pendingReads' = [j \in 1..(Len(pendingReads) - 1) |->
                          pendingReads[IF j < i THEN j ELSE j + 1]]
    /\ imageSrc' = pendingReads[i]
    /\ IF imageSrc' = imageSrc
       THEN UNCHANGED <<ctxVars, sizeVars>>
       ELSE /\ raster' = EmptyRaster
            /\ gco' = "source-over"
            /\ strokeStyle' = DefaultStrokeStyle
            /\ path' = <<>>
            /\ \E width \in lim.widths :
                 LET natural == NaturalSize(imageSrc')
                     client == ClientSize(natural, width)
                 IN /\ imageRef' = [naturalWidth |-> natural[1],
                                    naturalHeight |-> natural[2],
                                    clientWidth |-> client[1],
                                    clientHeight |-> client[2]]
                    /\ canvasSize' = [width |-> client[1], height |-> client[2]]
    /\ IF lim.net /\ env.AUTO_DESCRIPTION_ENABLED
       THEN generateImageDescription(NaturalSize(imageSrc'))
       ELSE UNCHANGED <<autoDescriptionStatus, previews>>
    /\ UNCHANGED <<drawingState, undoStackRef, brushVars, hasSketch, canUndo,
                   pendingRestores, used, lim, genVars, coords, requests,
                   generatedImage, conceptSourceImage, refinePrompt,
                   refinementLog, response, scoreStatus, scoreSummary,
                   location, failVars, proxy>>

\* The window is resized: the <img> follows its container; the effect of
\* lines 1134-1140 depends on imageSrc alone and does not run.
Resize(width) ==
    /\ CanvasMounted
    /\ width # imageRef.clientWidth
    /\ Event("resize", 0)
    /\ Track("resize")
    /\ imageRef' =
         LET client == ClientSize(<<imageRef.naturalWidth, imageRef.naturalHeight>>,
                                  width)
         IN [imageRef EXCEPT !.clientWidth = client[1], !.clientHeight = client[2]]
    /\ UNCHANGED <<sketchVars, genVars, canvasSize, pageVars, used, lim>>

\* The environment: from here on getImageData and toDataURL of the sketch
\* canvas throw (throws), or work again.  Lines 940-948 expect that they
\* can throw.
RasterReads(throws) ==
    /\ CanvasMounted
    /\ rasterThrows # throws
    /\ rasterThrows' = throws
    /\ Event("reads", 0)
    /\ Track("reads")
    /\ UNCHANGED <<sketchVars, genVars, sizeVars, coords, netVars, uncaught,
                   proxy, used, lim>>

\* Lines 1661, 1679 and 1694: the sketch controls, rendered with the canvas.
SetTool(id) ==
    /\ CanvasMounted
    /\ id \in TOOL_OPTIONS
    /\ tool' = id
    /\ Event("tool", 0)
    /\ Track("tool")
    /\ UNCHANGED <<imageSrc, ctxVars, drawingState, undoStackRef, brushColor,
                   brushOpacity, hasSketch, canUndo, pendingRestores,
                   pendingReads, used, lim, genVars,
                   sizeVars, pageVars>>

SetBrushColor(hex) ==
    /\ CanvasMounted
    /\ brushColor' = hex
    /\ Event("color", 0)
    /\ Track("color")
    /\ UNCHANGED <<imageSrc, ctxVars, drawingState, undoStackRef, tool,
                   brushOpacity, hasSketch, canUndo, pendingRestores,
                   pendingReads, used, lim, genVars,
                   sizeVars, pageVars>>

SetBrushOpacity(value) ==
    /\ CanvasMounted
    /\ brushOpacity' = value
    /\ Event("opacity", 0)
    /\ Track("opacity")
    /\ UNCHANGED <<imageSrc, ctxVars, drawingState, undoStackRef, tool,
                   brushColor, hasSketch, canUndo, pendingRestores,
                   pendingReads, used, lim, genVars,
                   sizeVars, pageVars>>

\* The prompt box, lines 1908-1917, rendered once there is a response (line
\* 1905); the effect runs when the text has changed.
SetImagePrompt(text) ==
    /\ lim.net => response # "" /\ InFlight < lim.inflight
    /\ imagePrompt' = text
    /\ Event("prompt", 0)
    /\ Track("prompt")
    /\ IF lim.net /\ text # imagePrompt
       THEN /\ scoreStatus' = ScoreEffect(text, location, requests).scoreStatus
            /\ scoreSummary' = ScoreEffect(text, location, requests).scoreSummary
            /\ requests' = ScoreEffect(text, location, requests).requests
       ELSE UNCHANGED <<scoreStatus, scoreSummary, requests>>
    /\ UNCHANGED <<sketchVars, imageGenerationStatus, lastRequest, env, used, lim,
                   sizeVars, coords, previews, generatedImage,
                   conceptSourceImage, refinePrompt, refinementLog, response,
                   autoDescriptionStatus, location, failVars, proxy>>

\* The location box, lines 1757-1775 with its clear button, and the place
\* the EXIF lookup found (line 1226): the effect runs when the text has
\* changed.  The event records how many scoring fetches were in flight.
SetLocation(text) ==
    /\ InFlight < lim.inflight
    /\ text # location
    /\ location' = text
    /\ Event("location", Len(SelectSeq(requests, LAMBDA r : r.caller = "score")))
    /\ Track("location")
    /\ scoreStatus' = ScoreEffect(imagePrompt, text, requests).scoreStatus
    /\ scoreSummary' = ScoreEffect(imagePrompt, text, requests).scoreSummary
    /\ requests' = ScoreEffect(imagePrompt, text, requests).requests
    /\ UNCHANGED <<sketchVars, genVars, used, lim, sizeVars, coords, previews,
                   generatedImage, conceptSourceImage, refinePrompt,
                   refinementLog, response, autoDescriptionStatus, failVars,
                   proxy>>

\* Lines 1350-1360 and 1368, the synchronous start of requestConceptImage:
\* the status, the old result dropped, and a createPreview of the base
\* image (inpainting) or of the composite, as the new values of
\* <<imageGenerationStatus, generatedImage, previews>>.  The decode and
\* what comes after it are followed by the specifications with lim.net.
requestConceptImage(caller, input, mask, useInpainting, sketchProvided) ==
    /\ imageGenerationStatus' =
          IF sketchProvided
          THEN "Generating AI concept image..."
          ELSE "Generating AI concept image (no sketch guidance)..."
    /\ generatedImage' = FALSE
    /\ previews' = IF lim.net
                   THEN Append(previews, [caller |-> caller,
                                          useInpainting |-> useInpainting,
                                          input |-> input, mask |-> mask,
                                          seq |-> used.issued + 1])
                   ELSE previews

\* Lines 1597-1599.
canGenerateImage == env.GEMINI_IMAGE_ENABLED /\ imageSrc # 0 /\ trim(imagePrompt) # ""

\* Mutant of BaseCanvasSize: the size the image is displayed at.
BaseCanvasSizeClient == <<imageRef.clientWidth, imageRef.clientHeight>>

\* Lines 1416-1417 and 1458-1459: naturalWidth || width, and the same for
\* the height.  The width of a rendered <img> is its client width.
BaseCanvasSize ==
    <<IF imageRef.naturalWidth # 0 THEN imageRef.naturalWidth
      ELSE imageRef.clientWidth,
      IF imageRef.naturalHeight # 0 THEN imageRef.naturalHeight
      ELSE imageRef.clientHeight>>

\* Lines 1397-1477 with the synchronous start of requestConceptImage: the
\* request is built from the state of the moment and handed over.
\* buildGeminiPrompt always returns text (it starts with a tag), so line
\* 1405 never returns.  The base canvas, the mask canvas and the composite
\* canvas all get BaseCanvasSize; the pixels of the mask are followed on a
\* grid of NaturalWidth cells.  A getImageData or toDataURL that throws is
\* caught at line 1473.  The button is rendered once there is a response
\* (line 1926) and disabled while canGenerateImage is false (line 1943).
handleGenerateImage ==
    /\ lim.net => used.posts < lim.posts
    /\ env.GEMINI_IMAGE_ENABLED
    /\ lim.net => response # "" /\ canGenerateImage /\ InFlight < lim.inflight
    /\ Event("generate", 0)
    /\ Track("generate")
    /\ IF ~CanvasMounted \/ trim(imagePrompt) = ""
       THEN /\ imageGenerationStatus' = "Please upload an image and generate the prompt first."
            /\ UNCHANGED <<lastRequest, generatedImage, conceptSourceImage,
                           previews, refinementLog>>
       ELSE IF rasterThrows
       THEN /\ imageGenerationStatus' = "Could not prepare the image for generation."
            /\ refinementLog' = 0
            /\ UNCHANGED <<lastRequest, generatedImage, conceptSourceImage, previews>>
       ELSE LET canUseInpainting == env.GEMINI_INPAINTING_ENABLED /\ hasSketch
                width == NaturalWidth(imageSrc)
            IN /\ refinementLog' = 0
               /\ lastRequest' =
                     IF canUseInpainting
                     THEN [useInpainting |-> TRUE, sketchProvided |-> TRUE,
                           width |-> width, maskData |-> BuildMask(raster, width)]
                     ELSE [useInpainting |-> FALSE, sketchProvided |-> hasSketch,
                           width |-> width, maskData |-> <<>>]
               /\ conceptSourceImage' = IF canUseInpainting THEN conceptSourceImage
                                        ELSE BaseCanvasSize
               /\ requestConceptImage("generate", BaseCanvasSize,
                                      IF canUseInpainting THEN BaseCanvasSize ELSE NoSize,
                                      canUseInpainting, lastRequest'.sketchProvided)
    /\ PostedConcept(CanvasMounted /\ trim(imagePrompt) # "" /\ ~rasterThrows)
    /\ UNCHANGED <<sketchVars, imagePrompt, env, lim, sizeVars, coords,
                   requests, refinePrompt, response, scoreStatus, scoreSummary, location,
                   autoDescriptionStatus, failVars, proxy>>

\* ------------------------------------------------- requests of the page
\* How a fetch of the page ends: a 2xx response with the field the page
\* looks for ("ok") or without it ("missing"), another status with an error
\* text ("error") or without one ("silent"), or the fetch or the reading of
\* the body throws ("throws").
Outcomes == {"ok", "error", "silent", "missing", "throws"}
Failures == Outcomes \ {"ok"}

\* The texts the collaborators answer with.
SuggestedPrompt == "p"
PromptError == "Error generating prompt"
ConceptError == "Gemini could not generate the concept image."

\* The size of the image the collaborator returns.
GeneratedSize == <<1024, 1024>>

\* Lines 1360-1380 and 1246-1251: createPreview has resolved with an image
\* of size image, and the payload is posted, as the new values of
\* <<previews, requests>>.  The mask goes into the payload as it was built.
PostPreview(i, image, reencoded) ==
    LET p == previews[i]
        mode == IF p.caller = "describe" THEN ""
                ELSE IF p.useInpainting THEN "inpainting" ELSE "composite"
    IN /\ previews' = Without(previews, i)
       /\ requests' = Append(requests,
                             [Request(p.caller, mode, image, reencoded, p.mask)
                                EXCEPT !.seq = p.seq])

\* Mutant of PreviewOnerror: a failed decode leaves the promise pending.
PreviewOnerrorSilent(i) ==
    /\ i \in 1..Len(previews)
    /\ Event("previewerror", i)
    /\ Track("previewerror")
    /\ previews' = Without(previews, i)
    /\ UNCHANGED <<sketchVars, genVars, sizeVars, coords, requests,
                   generatedImage, conceptSourceImage, refinePrompt,
                   refinementLog, response, scoreStatus, scoreSummary,
                   location, autoDescriptionStatus,
                   failVars, proxy, used, lim>>

\* Lines 861-870: img.onload of the i-th createPreview in flight.  The
\* preview canvas holds nothing but the decoded image, so its toDataURL
\* does not throw.
PreviewOnload(i) ==
    /\ i \in 1..Len(previews)
    /\ Event("previewload", i)
    /\ Track("previewload")
    /\ PostPreview(i, PreviewSize(previews[i].input[1], previews[i].input[2]), TRUE)
    /\ UNCHANGED <<sketchVars, genVars, sizeVars, coords, generatedImage,
                   conceptSourceImage, refinePrompt, refinementLog, response,
                   scoreStatus, scoreSummary,
                   location, autoDescriptionStatus, failVars, proxy, used, lim>>

\* Line 871: img.onerror of the i-th createPreview in flight.
PreviewOnerror(i) ==
    /\ i \in 1..Len(previews)
    /\ Event("previewerror", i)
    /\ Track("previewerror")
    /\ PostPreview(i, previews[i].input, FALSE)
    /\ UNCHANGED <<sketchVars, genVars, sizeVars, coords, generatedImage,
                   conceptSourceImage, refinePrompt, refinementLog, response,
                   scoreStatus, scoreSummary,
                   location, autoDescriptionStatus, failVars, proxy, used, lim>>

\* Lines 1382-1394, and for a refinement lines 1488-1495: the fetch of
\* requestConceptImage ends.
ConceptResponse(i, outcome) ==
    /\ i \in 1..Len(requests)
    /\ requests[i].caller \in {"generate", "refine"}
    /\ Event(outcome, i)
    /\ Track("response")
    /\ requests' = Without(requests, i)
    /\ IF outcome = "ok"
       THEN /\ generatedImage' = TRUE
            /\ conceptSourceImage' = IF requests[i].mode = "composite"
                                     THEN GeneratedSize ELSE conceptSourceImage
            /\ imageGenerationStatus' = "Concept image ready."
       ELSE /\ imageGenerationStatus' =
                 CASE outcome = "error" -> ConceptError
                   [] outcome \in {"silent", "missing"} -> "Failed to generate image."
                   [] outcome = "throws" -> "Failed to generate the concept image."
            /\ UNCHANGED <<generatedImage, conceptSourceImage>>
    /\ IF requests[i].caller = "refine"
       THEN /\ refinementLog' = refinementLog + 1
            /\ refinePrompt' = ""
       ELSE UNCHANGED <<refinementLog, refinePrompt>>
    /\ used' = [used EXCEPT !.shown = requests[i].seq]
    /\ UNCHANGED <<sketchVars, imagePrompt, lastRequest, env, sizeVars, coords,
                   previews, response, scoreStatus, scoreSummary, location,
                   autoDescriptionStatus, failVars, proxy, lim>>

\* The refinement box, line 1985, rendered with the generated image unless
\* the build has inpainting (lines 1958 and 1976).
SetRefinePrompt(text) ==
    /\ generatedImage /\ ~env.GEMINI_INPAINTING_ENABLED
    /\ refinePrompt' = text
    /\ Event("refineprompt", 0)
    /\ Track("refineprompt")
    /\ UNCHANGED <<sketchVars, genVars, sizeVars, coords, previews, requests,
                   generatedImage, conceptSourceImage, refinementLog, response,
                   scoreStatus, scoreSummary,
                   location, autoDescriptionStatus, failVars, proxy, used, lim>>

RefinesInFlight ==
    Len(SelectSeq(previews, LAMBDA p : p.caller = "refine"))
        + Len(SelectSeq(requests, LAMBDA r : r.caller = "refine"))

\* Lines 1479-1487; what follows the await is in ConceptResponse.  The
\* button is rendered with the refinement box and disabled while the box is
\* blank (line 1989).
handleRefinement ==
    /\ lim.net => used.posts < lim.posts
    /\ generatedImage /\ ~env.GEMINI_INPAINTING_ENABLED /\ trim(refinePrompt) # ""
    /\ InFlight < lim.inflight
    /\ refinementLog + RefinesInFlight < lim.inflight
    /\ Event("refine", 0)
    /\ Track("refine")
    /\ IF conceptSourceImage = NoSize \/ trim(refinePrompt) = ""
       THEN UNCHANGED <<imageGenerationStatus, generatedImage, previews>>
       ELSE requestConceptImage("refine", conceptSourceImage, NoSize, FALSE, TRUE)
    /\ PostedConcept(conceptSourceImage # NoSize /\ trim(refinePrompt) # "")
    /\ UNCHANGED <<sketchVars, imagePrompt, lastRequest, env, sizeVars, coords,
                   requests, conceptSourceImage, refinePrompt, refinementLog,
                   response, scoreStatus, scoreSummary,
                   location, autoDescriptionStatus, failVars,
                   proxy, lim>>

\* Lines 1265-1328 with the effect of lines 1142-1186: the message, the
\* prompt emptied, the fetch started.  The scenario is "adaptation", its
\* initial value.  The button is never disabled (line 1899).
handlePromptSubmit ==
    /\ lim.net => used.posts < lim.posts
    /\ InFlight < lim.inflight
    /\ Event("promptsubmit", 0)
    /\ Track("promptsubmit")
    /\ response' = "Thinking of playful ideas..."
    /\ imagePrompt' = ""
    /\ LET effect == IF imagePrompt # ""
                     THEN ScoreEffect("", location, requests)
                     ELSE [scoreStatus |-> scoreStatus,
                           scoreSummary |-> scoreSummary, requests |-> requests]
       IN /\ scoreStatus' = effect.scoreStatus
          /\ scoreSummary' = effect.scoreSummary
          /\ requests' = Append(effect.requests,
                                Request("prompt", "", NoSize, FALSE, NoSize))
    /\ Posted
    /\ UNCHANGED <<sketchVars, imageGenerationStatus, lastRequest, env, sizeVars,
                   coords, previews, generatedImage, conceptSourceImage,
                   refinePrompt, refinementLog, autoDescriptionStatus,
                   location, failVars, proxy, lim>>

\* Lines 1329-1339 with the effect of lines 1142-1186: the fetch of
\* handlePromptSubmit ends.
PromptResponse(i, outcome) ==
    /\ i \in 1..Len(requests)
    /\ requests[i].caller = "prompt"
    /\ Event(outcome, i)
    /\ Track("response")
    /\ IF outcome = "ok"
       THEN /\ response' = SuggestedPrompt
            /\ imagePrompt' = SuggestedPrompt
            /\ LET rest == Without(requests, i)
                   effect == IF imagePrompt # SuggestedPrompt
                             THEN ScoreEffect(SuggestedPrompt, location, rest)
                             ELSE [scoreStatus |-> scoreStatus,
                                   scoreSummary |-> scoreSummary,
                                   requests |-> rest]
               IN /\ scoreStatus' = effect.scoreStatus
                  /\ scoreSummary' = effect.scoreSummary
                  /\ requests' = effect.requests
       ELSE /\ response' =
                 CASE outcome = "error" -> PromptError
                   [] outcome \in {"silent", "missing"} -> "Failed to generate a prompt."
                   [] outcome = "throws" -> "An error occurred. Please try again."
            /\ requests' = Without(requests, i)
            /\ UNCHANGED <<imagePrompt, scoreStatus, scoreSummary>>
    /\ UNCHANGED <<sketchVars, imageGenerationStatus, lastRequest, env, sizeVars,
                   coords, previews, generatedImage, conceptSourceImage,
                   refinePrompt, refinementLog, autoDescriptionStatus,
                   location, failVars, proxy, used, lim>>

\* Lines 1252-1262: the fetch of generateImageDescription ends.
DescribeResponse(i, outcome) ==
    /\ i \in 1..Len(requests)
    /\ requests[i].caller = "describe"
    /\ Event(outcome, i)
    /\ Track("response")
    /\ requests' = Without(requests, i)
    /\ autoDescriptionStatus' =
         IF outcome = "ok"
         THEN "Suggested description ready. You can use or edit it."
         ELSE "We couldn't auto-describe this image."
    /\ UNCHANGED <<sketchVars, genVars, sizeVars, coords, previews,
                   generatedImage, conceptSourceImage, refinePrompt,
                   refinementLog, response, scoreStatus, scoreSummary,
                   location, failVars, proxy,
                   used, lim>>

\* Mutant of ScoreResponse: a scoring that failed is not reported.
ScoreResponseQuiet(i, outcome) ==
    /\ i \in 1..Len(requests)
    /\ requests[i].caller = "score"
    /\ Event(outcome, i)
    /\ Track("response")
    /\ requests' = Without(requests, i)
    /\ scoreStatus' = ""
    /\ scoreSummary' = NoSummary
    /\ UNCHANGED <<sketchVars, genVars, sizeVars, coords, previews,
                   generatedImage, conceptSourceImage, refinePrompt,
                   refinementLog, response, autoDescriptionStatus, location,
                   failVars, proxy, used, lim>>

\* Lines 1160-1181 and the render of lines 1925-1933: the fetch of the
\* scoring effect ends.  The status is looked at before the body is read;
\* an "ok" answer carries what the scorer computes from the table of the
\* moment, a "missing" one a body without a match count.
ScoreResponse(i, outcome) ==
    /\ i \in 1..Len(requests)
    /\ requests[i].caller = "score"
    /\ Event(outcome, i)
    /\ Track("response")
    /\ requests' = Without(requests, i)
    /\ \E records \in lim.tables :
         LET data == IF outcome = "ok"
                     THEN Score(records, requests[i].prompt, requests[i].location)
                     ELSE NoMatch
             stored == data.matches # 0 /\ data.averages # Null
             summary == IF stored
                        THEN [matches |-> data.matches, averages |-> data.averages,
                              prompt |-> requests[i].prompt,
                              location |-> requests[i].location]
                        ELSE NoSummary
         IN /\ scoreStatus' =
                 CASE stored -> ""
                   [] outcome \in {"ok", "missing"} -> "No matching interventions found."
                   [] OTHER -> "Unable to score interventions."
            /\ scoreSummary' = summary
            /\ uncaught' = (uncaught \/ (response # "" /\ RenderThrows(summary)))
    /\ UNCHANGED <<sketchVars, genVars, sizeVars, coords, previews,
                   generatedImage, conceptSourceImage, refinePrompt,
                   refinementLog, response, autoDescriptionStatus, location,
                   rasterThrows, proxy, used, lim>>

\* ------------------------------------------------------------ API routes
Routes == {"generate-visual-concept", "generate-play-prompt", "describe-image",
           "score-interventions", "reverse-geocode"}

\* A data URL as toDataURL gives it, and a text that is none.
DataUrl == "data:image/png;base64,AAAA"
NoDataUrl == "image.png"

\* part_001 lines 7-15 and describe-image.js lines 11-19: whether the
\* text matches /^data:(.+?);base64,(.+)$/ (null otherwise).
parseDataUrl(dataUrl) == dataUrl = DataUrl

\* The handlers up to their upstream fetch: the status of the response
\* sent before it, 0 when the handler gets to the fetch.  keys tells
\* whether the process has the keys the route reads from process.env.
\* part_001 lines 33-71.
generateVisualConcept(req, keys) ==
    IF req.method # "POST" THEN 405
    ELSE IF ~keys THEN 500
    ELSE IF req.prompt = "" THEN 400
    ELSE IF req.mode = "composite" /\ ~parseDataUrl(req.imageData) THEN 400
    ELSE IF req.mode = "inpainting"
              /\ (~parseDataUrl(req.baseImageData) \/ ~parseDataUrl(req.maskData))
         THEN 400
    ELSE 0

\* generate-play-prompt.js lines 7-17: the prompt is read and not looked at.
generatePlayPrompt(req, keys) ==
    IF req.method # "POST" THEN 405
    ELSE IF ~keys THEN 500
    ELSE 0

\* describe-image.js lines 22-42.
describeImage(req, keys) ==
    IF req.method # "POST" THEN 405
    ELSE IF ~keys THEN 500
    ELSE IF req.imageData = "" THEN 400
    ELSE IF ~parseDataUrl(req.imageData) THEN 400
    ELSE 0

\* score-interventions.js lines 77-93.
scoreInterventions(req, keys) ==
    IF req.method # "POST" THEN 405
    ELSE IF ~keys THEN 500
    ELSE IF req.prompt = "" /\ req.location = "" THEN 400
    ELSE 0

\* reverse-geocode.js lines 9-18: the route reads no key.
reverseGeocode(req) ==
    IF req.method # "GET" THEN 405
    ELSE IF req.lat = "" \/ req.lon = "" THEN 400
    ELSE 0

handler(route, req, keys) ==
    CASE route = "generate-visual-concept" -> generateVisualConcept(req, keys)
      [] route = "generate-play-prompt" -> generatePlayPrompt(req, keys)
      [] route = "describe-image" -> describeImage(req, keys)
      [] route = "score-interventions" -> scoreInterventions(req, keys)
      [] route = "reverse-geocode" -> reverseGeocode(req)

\* How the upstream fetch of a route ends: a 2xx answer with the content
\* the route looks for ("ok") or without it ("empty"), another status
\* ("notok", a 429 here), or an exception ("throws").
Upstream == {"ok", "empty", "notok", "throws"}

\* The status of the response after the fetch: part_001 lines 134-165,
\* generate-play-prompt.js lines 37-61, describe-image.js lines 80-111,
\* score-interventions.js lines 109-199 (no match is a 200 with matches 0),
\* reverse-geocode.js lines 35-54 (missing fields are sent as they are).
Answer(route, outcome) ==
    CASE outcome = "notok" -> 429
      [] outcome = "throws" -> 500
      [] outcome = "ok" -> 200
      [] outcome = "empty" ->
            IF route \in {"score-interventions", "reverse-geocode"} THEN 200 ELSE 502

\* A request reaches a route: the handler runs to its first await.
Invoke(route, req, keys) ==
    /\ proxy.pc # "awaiting"
    /\ LET status == handler(route, req, keys)
       IN proxy' = [route |-> route, keys |-> keys, req |-> req,
                    pc |-> IF status = 0 THEN "awaiting" ELSE "done",
                    sent |-> IF status = 0 THEN <<>> ELSE <<status>>,
                    calls |-> IF status = 0 THEN 1 ELSE 0]
    /\ Event("invoke", 0)
    /\ Track("invoke")
    /\ UNCHANGED <<sketchVars, genVars, sizeVars, coords, netVars, failVars,
                   used, lim>>

\* The upstream fetch of the running handler ends and the handler answers.
UpstreamSettles(outcome) ==
    /\ proxy.pc = "awaiting"
    /\ proxy' = [proxy EXCEPT !.pc = "done",
                              !.sent = Append(@, Answer(proxy.route, outcome))]
    /\ Event(outcome, 0)
    /\ Track("upstream")
    /\ UNCHANGED <<sketchVars, genVars, sizeVars, coords, netVars, failVars,
                   used, lim>>

\* ---------------------------------------------------------- specifications
NoRequest == [useInpainting |-> FALSE, sketchProvided |-> FALSE,
              width |-> 0, maskData |-> <<>>]
AllEnabled == [GEMINI_IMAGE_ENABLED |-> TRUE, GEMINI_INPAINTING_ENABLED |-> TRUE,
               AUTO_DESCRIPTION_ENABLED |-> TRUE]

\* What the sketch-layer specifications leave out: one container width, no
\* request followed after it is handed over.
Rated == [Keywords |-> {"p"}, Location |-> {}, Cost |-> Num(2),
          Ease |-> Num(3), Effectiveness |-> Num(4)]
Plain == [widths |-> {400}, net |-> FALSE, inflight |-> 0, posts |-> 0,
          tables |-> {<<Rated>>}]

\* The state of the page outside the sketch layer, as constructed (lines
\* 887-902).
PageConstructed ==
    /\ coords = NoCoords
    /\ previews = <<>>
    /\ requests = <<>>
    /\ generatedImage = FALSE
    /\ conceptSourceImage = NoSize
    /\ refinePrompt = ""
    /\ refinementLog = 0
    /\ response = ""
    /\ scoreStatus = ""
    /\ autoDescriptionStatus = ""
    /\ scoreSummary = NoSummary
    /\ location = ""
    /\ rasterThrows = FALSE
    /\ uncaught = FALSE
    /\ proxy = NoProxy

\* The component as constructed (lines 876-908): no image, nothing drawn.
Constructed ==
    /\ imageSrc = 0
    /\ raster = EmptyRaster
    /\ gco = "source-over"
    /\ strokeStyle = DefaultStrokeStyle
    /\ path = <<>>
    /\ drawingState = [active |-> FALSE]
    /\ undoStackRef = <<>>
    /\ tool = "brush"
    /\ brushColor = DEFAULT_BRUSH_COLOR
    /\ brushOpacity = INITIAL_BRUSH_OPACITY
    /\ hasSketch = FALSE
    /\ canUndo = FALSE
    /\ pendingRestores = <<>>
    /\ pendingReads = <<>>
    /\ imagePrompt = ""
    /\ imageGenerationStatus = ""
    /\ lastRequest = NoRequest
    /\ lastEvent = [op |-> "init", cell |-> 0, run |-> NoRun]
    /\ used = [down |-> 0, posts |-> 0, issued |-> 0, shown |-> 0]
    /\ session = NoSession
    /\ imageRef = NoImage
    /\ canvasSize = NoCanvas
    /\ PageConstructed

Files == {1, 2}

\* Spec: every handler of the sketch layer, in any order, few strokes.
Init ==
    /\ Constructed
    /\ env = AllEnabled
    /\ lim = [down |-> MaxDowns, path |-> MaxPath, reads |-> MaxReads,
              restores |-> MaxDowns, track |-> FALSE, buttons |-> TRUE] @@ Plain

Next ==
    \/ \E c \in Cells : HandlePointerDown(c)
    \/ \E c \in Cells : HandlePointerMove(c)
    \/ handlePointerUp
    \/ handlePointerLeave
    \/ handlePointerCancel
    \/ handleUndoSketch
    \/ \E i \in 1..Len(pendingRestores) : RestoreOnload(i)
    \/ handleClearSketch
    \/ \E f \in Files : handleImageUpload(f)
    \/ \E i \in 1..Len(pendingReads) : ReaderOnload(i)
    \/ \E id \in TOOL_OPTIONS : SetTool(id)

Spec == Init /\ [][Next]_vars

\* SpecReads: the handlers of Spec with a second file selected while the
\* first is still being read, and one pointer-down.
InitReads ==
    /\ Constructed
    /\ env = AllEnabled
    /\ lim = [down |-> 1, path |-> 2, reads |-> OverlapReads,
              restores |-> 1, track |-> FALSE, buttons |-> TRUE] @@ Plain

NextReads ==
    \/ \E f \in Files : handleImageUpload(f)
    \/ \E i \in 1..Len(pendingReads) : ReaderOnload(i)
    \/ \E c \in Cells : HandlePointerDown(c)
    \/ handlePointerUp
    \/ handleUndoSketch
    \/ \E i \in 1..Len(pendingRestores) : RestoreOnload(i)
    \/ handleClearSketch

SpecReads == InitReads /\ [][NextReads]_vars

\* SpecDeep: one image; the user draws, enough pointer-downs to fill the
\* undo stack and overflow it, and from the first undo on only undoes.
\* Brush or eraser and the cell are chosen up to the DeepVaried-th stroke;
\* from there on the tool is kept and the strokes start in cell 1.  Undo is
\* called directly, so also on an empty stack.
InitDeep ==
    /\ Constructed
    /\ env = AllEnabled
    /\ lim = [down |-> MAX_UNDO_STATES + DeepExtra, path |-> 2, reads |-> 1,
              restores |-> DeepRestores, track |-> TRUE, buttons |-> FALSE] @@ Plain

DeepCells == IF used.down < DeepVaried THEN Cells ELSE {1}

NextDeep ==
    \/ imageSrc = 0 /\ pendingReads = <<>> /\ handleImageUpload(1)
    \/ \E i \in 1..Len(pendingReads) : ReaderOnload(i)
    \/ session.k = 0 /\ \E c \in DeepCells : HandlePointerDown(c)
    \/ handlePointerUp
    \/ handleUndoSketch
    \/ \E i \in 1..Len(pendingRestores) : RestoreOnload(i)
    \/ used.down < DeepVaried /\ \E id \in {"brush", "eraser"} : SetTool(id)

SpecDeep == InitDeep /\ [][NextDeep]_vars

\* SpecCalm: one pointer, one thing at a time.  The user starts nothing
\* while a stroke is active or a decode or a file read is in flight.
InitCalm ==
    /\ Constructed
    /\ env = AllEnabled
    /\ lim = [down |-> MaxDowns, path |-> MaxPath, reads |-> MaxReads,
              restores |-> 1, track |-> FALSE, buttons |-> TRUE] @@ Plain

Idle == ~drawingState.active /\ pendingRestores = <<>> /\ pendingReads = <<>>

NextCalm ==
    \/ Idle /\ \E c \in Cells : HandlePointerDown(c)
    \/ drawingState.active /\ \E c \in Cells : HandlePointerMove(c)
    \/ drawingState.active /\ handlePointerUp
    \/ drawingState.active /\ handlePointerLeave
    \/ drawingState.active /\ handlePointerCancel
    \/ Idle /\ handleUndoSketch
    \/ \E i \in 1..Len(pendingRestores) : RestoreOnload(i)
    \/ Idle /\ handleClearSketch
    \/ Idle /\ \E f \in Files : handleImageUpload(f)
    \/ \E i \in 1..Len(pendingReads) : ReaderOnload(i)
    \/ Idle /\ \E id \in TOOL_OPTIONS : SetTool(id)

SpecCalm == InitCalm /\ [][NextCalm]_vars

\* SpecPick: the eyedropper.  An image is loaded and one stroke has left
\* cell 1 with some colour and alpha (the soft edge of a stroke and strokes
\* laid over each other give every alpha); the user sets tool, colour and
\* opacity and presses the pointer.
PickColors == {<<0, 200, 255>>, <<9, 16, 171>>}
PickPixels == {Transparent} \cup
              {[r |-> rgb[1], g |-> rgb[2], b |-> rgb[3], a |-> a] :
                   rgb \in PickColors, a \in 1..255}
PickerColors == {DEFAULT_BRUSH_COLOR, <<15, 15, 0, 0, 0, 10>>}
SliderOpacities == {10 + 5 * i : i \in 0..18}
PickOpacities == {100}

InitPick ==
    /\ \E pixel \in PickPixels :
         /\ raster = [c \in Cells |-> IF c = 1 THEN pixel ELSE Transparent]
         /\ hasSketch = (pixel.a > 0)
         /\ canUndo = (pixel.a > 0)
         /\ undoStackRef = IF pixel.a > 0 THEN <<EmptyRaster>> ELSE <<>>
    /\ imageSrc = 1
    /\ gco = "source-over"
    /\ strokeStyle = DefaultStrokeStyle
    /\ path = <<>>
    /\ drawingState = [active |-> FALSE]
    /\ tool = "brush"
    /\ brushColor = DEFAULT_BRUSH_COLOR
    /\ brushOpacity = INITIAL_BRUSH_OPACITY
    /\ pendingRestores = <<>>
    /\ pendingReads = <<>>
    /\ imagePrompt = ""
    /\ imageGenerationStatus = ""
    /\ lastRequest = NoRequest
    /\ env = AllEnabled
    /\ lastEvent = [op |-> "init", cell |-> 0, run |-> NoRun]
    /\ used = [down |-> 0, posts |-> 0, issued |-> 0, shown |-> 0]
    /\ session = NoSession
    /\ imageRef = [naturalWidth |-> 800, naturalHeight |-> 600,
                   clientWidth |-> 400, clientHeight |-> 300]
    /\ canvasSize = [width |-> 400, height |-> 300]
    /\ PageConstructed
    /\ lim = [down |-> PickDowns, path |-> 2, reads |-> 0, restores |-> 0,
              track |-> FALSE, buttons |-> TRUE] @@ Plain

NextPick ==
    \/ \E c \in Cells : HandlePointerDown(c)
    \/ handlePointerUp
    \/ \E id \in TOOL_OPTIONS : SetTool(id)
    \/ \E hex \in PickerColors : SetBrushColor(hex)
    \/ \E value \in PickOpacities : SetBrushOpacity(value)

SpecPick == InitPick /\ [][NextPick]_vars

\* SpecGen: the mask and composite builder.  Any build of the flags; the
\* user uploads, draws and erases, types a prompt and asks for the image.
ImagePrompts == {"", " ", "p"}
GenOpacities == {100}

InitGen ==
    /\ Constructed
    /\ env \in {[AllEnabled EXCEPT !.GEMINI_IMAGE_ENABLED = image,
                                  !.GEMINI_INPAINTING_ENABLED = inpainting] :
                    image \in BOOLEAN, inpainting \in BOOLEAN}
    /\ lim = [down |-> GenDowns, path |-> 2, reads |-> 1, restores |-> 0,
              track |-> FALSE, buttons |-> TRUE] @@ Plain

NextGen ==
    \/ imageSrc = 0 /\ \E f \in Files : handleImageUpload(f)
    \/ \E i \in 1..Len(pendingReads) : ReaderOnload(i)
    \/ \E c \in Cells : HandlePointerDown(c)
    \/ handlePointerUp
    \/ \E id \in {"brush", "eraser"} : SetTool(id)
    \/ \E value \in GenOpacities : SetBrushOpacity(value)
    \/ \E text \in ImagePrompts : SetImagePrompt(text)
    \/ handleGenerateImage

SpecGen == InitGen /\ [][NextGen]_vars

\* SpecPage: the page around the sketch layer.  The user uploads one of
\* two images into a container 400 pixels wide, resizes the window, the user
\* draws, asks for a prompt, edits it, asks for the concept image and for
\* refinements; every decode and every fetch ends in any of its ways, in
\* any order.
PageFiles == {1, 2}
ContainerWidths == {400, 800}
PageOffsets == {<<100, 100>>}
PagePrompts == {" ", "p"}

InitPage ==
    /\ Constructed
    /\ env \in {AllEnabled, [AllEnabled EXCEPT !.GEMINI_INPAINTING_ENABLED = FALSE,
                                           !.AUTO_DESCRIPTION_ENABLED = FALSE]}
    /\ lim = [down |-> PageDowns, path |-> 2, reads |-> 1, restores |-> 0,
              track |-> FALSE, buttons |-> TRUE, widths |-> {400},
              net |-> TRUE, inflight |-> MaxInFlight,
              posts |-> MaxPosts, tables |-> {<<Rated>>}]

NextPage ==
    \/ imageSrc = 0 /\ \E f \in PageFiles : handleImageUpload(f)
    \/ \E i \in 1..Len(pendingReads) : ReaderOnload(i)
    \/ \E width \in ContainerWidths : Resize(width)
    \/ \E offset \in PageOffsets : HandlePointerDownAt(offset)
    \/ handlePointerUp
    \/ handlePromptSubmit
    \/ \E text \in PagePrompts : SetImagePrompt(text)
    \/ handleGenerateImage
    \/ \E text \in PagePrompts : SetRefinePrompt(text)
    \/ handleRefinement
    \/ \E i \in 1..Len(previews) : PreviewOnload(i)
    \/ \E i \in 1..Len(previews) : PreviewOnerror(i)
    \/ \E i \in 1..Len(requests), outcome \in Outcomes : PromptResponse(i, outcome)
    \/ \E i \in 1..Len(requests), outcome \in Outcomes : ConceptResponse(i, outcome)
    \/ \E i \in 1..Len(requests), outcome \in Outcomes : DescribeResponse(i, outcome)
    \/ \E i \in 1..Len(requests), outcome \in Outcomes : ScoreResponse(i, outcome)

SpecPage == InitPage /\ [][NextPage]_vars

\* SpecScore: the prompt and the location edited while scorings are in
\* flight, the Airtable table holding up to MaxRecords records whose
\* ratings are numbers, absent or texts.
MaxRecords == 2
ScorePrompts == {" ", "p", "q"}
ScorePlaces == {"", "x", "y"}
ScoreRecords ==
    {Rated,
     [Rated EXCEPT !.Cost = Absent],
     [Rated EXCEPT !.Keywords = {"P"}, !.Location = {"x"}, !.Cost = Num(5),
                   !.Ease = Words],
     [Rated EXCEPT !.Keywords = {"q"}, !.Cost = Num(1), !.Ease = Num(1),
                   !.Effectiveness = Num(1)]}
ScoreTables == UNION {[1..n -> ScoreRecords] : n \in 0..MaxRecords}

InitScore ==
    /\ Constructed
    /\ env = AllEnabled
    /\ lim = [down |-> 0, path |-> 2, reads |-> 1, restores |-> 0,
              track |-> FALSE, buttons |-> TRUE, widths |-> {400},
              net |-> TRUE, inflight |-> MaxInFlight,
              posts |-> 1, tables |-> ScoreTables]

NextScore ==
    \/ imageSrc = 0 /\ \E f \in {1} : handleImageUpload(f)
    \/ \E i \in 1..Len(pendingReads) : ReaderOnload(i)
    \/ handlePromptSubmit
    \/ \E text \in ScorePrompts : SetImagePrompt(text)
    \/ \E text \in ScorePlaces : SetLocation(text)
    \/ \E i \in 1..Len(requests), outcome \in Outcomes : PromptResponse(i, outcome)
    \/ \E i \in 1..Len(requests), outcome \in Outcomes : ScoreResponse(i, outcome)

SpecScore == InitScore /\ [][NextScore]_vars

\* SpecProxy: the API routes, one invocation after the other, on requests
\* with every combination of present and missing fields, on a deployment
\* with or without its keys, the upstream fetch ending in any of its ways.
Texts == {"", "p"}
Images == {"", DataUrl}
RequestsOf(route) ==
    CASE route = "generate-visual-concept" ->
           {[NoReq EXCEPT !.method = method, !.prompt = prompt, !.mode = mode,
                          !.imageData = imageData, !.baseImageData = baseImageData,
                          !.maskData = maskData] :
                method \in {"GET", "POST"}, prompt \in Texts,
                mode \in {"composite", "inpainting"}, imageData \in Images,
                baseImageData \in Images, maskData \in Images}
      [] route = "generate-play-prompt" ->
           {[NoReq EXCEPT !.method = method, !.prompt = prompt] :
                method \in {"GET", "POST"}, prompt \in Texts}
      [] route = "describe-image" ->
           {[NoReq EXCEPT !.method = method, !.imageData = imageData] :
                method \in {"GET", "POST"}, imageData \in Images \cup {NoDataUrl}}
      [] route = "score-interventions" ->
           {[NoReq EXCEPT !.method = method, !.prompt = prompt,
                          !.location = place] :
                method \in {"GET", "POST"}, prompt \in Texts, place \in Texts}
      [] route = "reverse-geocode" ->
           {[NoReq EXCEPT !.method = method, !.lat = lat, !.lon = lon] :
                method \in {"GET", "POST"}, lat \in {"", "52.1"}, lon \in {"", "4.3"}}

InitProxy ==
    /\ Constructed
    /\ env = AllEnabled
    /\ lim = [down |-> 0, path |-> 0, reads |-> 0, restores |-> 0,
              track |-> FALSE, buttons |-> TRUE] @@ Plain

NextProxy ==
    \/ \E route \in Routes, keys \in BOOLEAN :
           \E req \in RequestsOf(route) : Invoke(route, req, keys)
    \/ \E outcome \in Upstream : UpstreamSettles(outcome)

SpecProxy == InitProxy /\ [][NextProxy]_vars

\* SpecFail: the sketch layer on a canvas whose reads start and stop
\* throwing at any moment.
InitFail ==
    /\ Constructed
    /\ env = AllEnabled
    /\ lim = [down |-> FailDowns, path |-> 2, reads |-> 1, restores |-> 1,
              track |-> FALSE, buttons |-> TRUE] @@ Plain

NextFail ==
    \/ imageSrc = 0 /\ handleImageUpload(1)
    \/ \E i \in 1..Len(pendingReads) : ReaderOnload(i)
    \/ \E throws \in BOOLEAN : RasterReads(throws)
    \/ \E c \in Cells : HandlePointerDown(c)
    \/ handlePointerUp
    \/ \E id \in TOOL_OPTIONS : SetTool(id)
    \/ handleUndoSketch
    \/ \E i \in 1..Len(pendingRestores) : RestoreOnload(i)
    \/ \E text \in ImagePrompts : SetImagePrompt(text)
    \/ handleGenerateImage

SpecFail == InitFail /\ [][NextFail]_vars

\* The pointer on the canvas: images are shown in containers of several
\* widths, the window is resized, and the pointer goes down at several
\* offsets and up again.
CoordWidths == {400, 600, 800}
CoordOffsets == {<<0, 0>>, <<100, 100>>, <<399, 0>>, <<250, 299>>, <<599, 449>>}

InitCoords ==
    /\ Constructed
    /\ env = AllEnabled
    /\ lim = [down |-> PageDowns, path |-> 2, reads |-> 1, restores |-> 0,
              track |-> FALSE, buttons |-> TRUE, widths |-> CoordWidths] @@ Plain

NextCoords ==
    \/ imageSrc = 0 /\ \E f \in PageFiles : handleImageUpload(f)
    \/ \E i \in 1..Len(pendingReads) : ReaderOnload(i)
    \/ \E width \in CoordWidths : Resize(width)
    \/ \E offset \in CoordOffsets : HandlePointerDownAt(offset)
    \/ handlePointerUp

SpecCoords == InitCoords /\ [][NextCoords]_vars

\* createPreview on pictures of many sizes: each is uploaded and described
\* (generateImageDescription hands the upload to createPreview), the decode
\* ends either way and so does the fetch.
InitPreview ==
    /\ Constructed
    /\ env = AllEnabled
    /\ lim = [down |-> 0, path |-> 2, reads |-> 1, restores |-> 0,
              track |-> FALSE, buttons |-> TRUE, widths |-> {400},
              net |-> TRUE, inflight |-> MaxInFlight, posts |-> 0,
              tables |-> {<<Rated>>}]

NextPreview ==
    \/ imageSrc = 0 /\ \E f \in 1..Len(Pictures) : handleImageUpload(f)
    \/ \E i \in 1..Len(pendingReads) : ReaderOnload(i)
    \/ \E i \in 1..Len(previews) : PreviewOnload(i)
    \/ \E i \in 1..Len(previews) : PreviewOnerror(i)
    \/ \E i \in 1..Len(requests), outcome \in Outcomes : DescribeResponse(i, outcome)

SpecPreview == InitPreview /\ [][NextPreview]_vars

\* ------------------------------------------------------------------ claims
EndEvents == {"pointerup", "pointerleave", "pointercancel"}
StrokeBegins == lastEvent'.op = "pointerdown" /\ used'.down = used.down + 1
                    /\ tool \in {"brush", "eraser"}

\* C1: the undo stack never holds more than MAX_UNDO_STATES (15) snapshots,
\* and a pointer-down that pushes onto a stack of 15 leaves the 14 newer
\* snapshots, in order, followed by the new one: the oldest is gone.
C1_StackBoundedOldestEvicted ==
    /\ [](Len(undoStackRef) <= MAX_UNDO_STATES)
    /\ [][(StrokeBegins /\ Len(undoStackRef) = MAX_UNDO_STATES)
            => undoStackRef' = Tail(undoStackRef) \o <<raster>>]_vars

\* A sixteenth stroke in a row has just pushed onto the full stack, whose
\* oldest entry was the empty raster of the fresh canvas.
C1_Witness ==
    /\ lastEvent.op = "pointerdown"
    /\ used.down = MAX_UNDO_STATES + 1
    /\ session.ok /\ session.k = 0
    /\ Len(undoStackRef) = MAX_UNDO_STATES
    /\ undoStackRef[1] # EmptyRaster

\* C2: from a freshly uploaded image, after N <= 15 completed brush or
\* eraser strokes and then N undos, each decode finishing before the next
\* operation, the raster is fully transparent and the stack empty; after
\* one more undo the state is the one clear() produces (raster transparent,
\* stack empty, canUndo and hasSketch false).
C2_UndoAllStrokes ==
    (session.ok /\ session.n <= MAX_UNDO_STATES /\ ~drawingState.active
        /\ pendingRestores = <<>>)
    => /\ session.k = session.n
            => raster = EmptyRaster /\ undoStackRef = <<>>
       /\ session.k = session.n + 1
            => /\ raster = EmptyRaster /\ undoStackRef = <<>>
               /\ ~canUndo /\ ~hasSketch

\* Fifteen completed strokes that left ink, then sixteen undos.
C2_Witness ==
    /\ session.ok /\ session.n = MAX_UNDO_STATES /\ session.k = session.n + 1
    /\ pendingRestores = <<>>
    /\ lastEvent.op = "undo"

C4_UndoRestoresPopped ==
    [][/\ (lastEvent'.op = "undo" /\ undoStackRef # <<>>)
           => /\ undoStackRef' = SubSeq(undoStackRef, 1, Len(undoStackRef) - 1)
              /\ pendingRestores' = Append(pendingRestores,
                     [snapshot |-> Top(undoStackRef), live |-> TRUE])
       /\ (lastEvent'.op = "undo" /\ undoStackRef = <<>>)
           => raster' = EmptyRaster /\ undoStackRef' = <<>>
       /\ \A i \in 1..Len(pendingRestores) :
            (lastEvent'.op = "restored" /\ pendingRestores[i].live
                /\ pendingRestores' = Without(pendingRestores, i))
            => raster' = pendingRestores[i].snapshot]_vars

\* C5 (as claimed): in a request in inpainting mode every mask pixel is
\* opaque white where the scaled sketch pixel has alpha > 0 and opaque black
\* where it has alpha 0 (no ink: all black; all ink: all white).
C5_MaskFollowsInk ==
    (lastEvent.op = "generate" /\ lastRequest.useInpainting)
    => \A j \in 1..lastRequest.width :
         lastRequest.maskData[j] =
             IF ScaledSketch(raster, lastRequest.width)[j].a > 0
             THEN White ELSE Black

\* An eyedropper pointer-down: the step, and the pixel under the pointer.
PickStep == lastEvent'.op = "pointerdown" /\ used'.down = used.down + 1
                /\ tool = "eyedropper"
Sampled == raster[lastEvent'.cell]
\* h hundredths is a / 255 rounded to two decimals.
IsRounded(a, h) == 2 * (IF 100 * a >= 255 * h THEN 100 * a - 255 * h
                        ELSE 255 * h - 100 * a) <= 255
PickSetsColorAndTool ==
    /\ Len(brushColor') = 6
    /\ \A i \in 1..6 : brushColor'[i] \in 0..15
    /\ brushColor'[1] * 16 + brushColor'[2] = Sampled.r
    /\ brushColor'[3] * 16 + brushColor'[4] = Sampled.g
    /\ brushColor'[5] * 16 + brushColor'[6] = Sampled.b
    /\ tool' = "brush"
    /\ UNCHANGED <<raster, undoStackRef, drawingState>>

\* C6 (as claimed): an eyedropper pointer-down on a pixel of alpha a in
\* 1..255 sets the brush colour to the hex digits of its (r, g, b), the
\* opacity to a / 255 rounded to two decimals and the tool to brush, and
\* leaves raster, undo stack and the stroke-active flag alone.
C6_PickRoundsEveryAlpha ==
    [][(PickStep /\ Sampled.a > 0)
         => PickSetsColorAndTool /\ IsRounded(Sampled.a, brushOpacity')]_vars

\* C6 (amended): as above for a in 2..255; for a = 1, where a / 255 rounds
\* to 0.00, the brush opacity keeps its value.
C6_PickRoundsOrKeeps ==
    [][(PickStep /\ Sampled.a > 0)
         => /\ PickSetsColorAndTool
            /\ Sampled.a >= 2 => IsRounded(Sampled.a, brushOpacity')
            /\ Sampled.a = 1 => brushOpacity' = brushOpacity]_vars

\* The eyedropper has sampled a pixel of alpha 1 while the opacity slider
\* stood at 1.0: the tool is brush again and the opacity still 1.0.
C6_Witness ==
    /\ lastEvent.op = "pointerdown"
    /\ ~drawingState.active
    /\ tool = "brush"
    /\ raster[lastEvent.cell].a = 1
    /\ brushOpacity = 100
    /\ brushColor = <<0, 9, 1, 0, 10, 11>>

\* C7: an eyedropper pointer-down on a pixel of alpha 0 changes nothing:
\* the tool stays eyedropper, and brush colour, brush opacity, raster, undo
\* stack and stroke-active flag keep their values.
C7_PickTransparentNoOp ==
    [][(PickStep /\ Sampled.a = 0)
         => /\ tool' = "eyedropper"
            /\ UNCHANGED <<brushColor, brushOpacity, raster, undoStackRef,
                           drawingState>>]_vars

\* The eyedropper was pressed on a transparent cell next to an inked one,
\* after the user had picked another colour.
C7_Witness ==
    /\ lastEvent.op = "pointerdown"
    /\ tool = "eyedropper"
    /\ raster[lastEvent.cell].a = 0
    /\ HasInk(raster)
    /\ brushColor # DEFAULT_BRUSH_COLOR

\* C8: right after clear() the raster is fully transparent, the undo stack
\* is empty (nothing is left to undo the clear with) and canUndo and
\* hasSketch are false, whatever was drawn or stacked before.
C8_ClearEmptiesAll ==
    lastEvent.op = "clear"
    => /\ raster = EmptyRaster
       /\ undoStackRef = <<>>
       /\ ~canUndo
       /\ ~hasSketch

\* clear() has run in the middle of the second stroke of the run.
C8_Witness ==
    /\ lastEvent.op = "clear"
    /\ used.down = 2
    /\ drawingState.active

\* C9 (as claimed): right after a file was selected the sketch raster is
\* empty, the undo stack is empty, no stroke is active, and no decode in
\* flight can draw a snapshot of the previous image onto the canvas.
C9_UploadDiscardsSession ==
    lastEvent.op = "upload"
    => /\ raster = EmptyRaster
       /\ undoStackRef = <<>>
       /\ ~drawingState.active
       /\ \A i \in 1..Len(pendingRestores) : ~pendingRestores[i].live

\* C10 (as claimed): hasSketch is false right after clear() and right after
\* an upload, true right after a finished brush stroke of opacity > 0, and
\* false right after a finished eraser stroke whose path passed over every
\* cell that had ink before the stroke (the snapshot on top of the stack).
C10_InkFlag ==
    [][/\ lastEvent'.op \in {"clear", "upload"} => ~hasSketch'
       /\ (lastEvent'.op \in EndEvents /\ drawingState.active
              /\ Coverage(path) # {} /\ undoStackRef # <<>>)
           => /\ (gco = "source-over" /\ strokeStyle.alpha > 0) => hasSketch'
              /\ (gco = "destination-out"
                    /\ \A c \in Cells :
                         Top(undoStackRef)[c].a > 0 => c \in Coverage(path))
                   => ~hasSketch']_vars

\* C11 (as claimed): every inpainting request in flight carries a base
\* image and a mask of the same pixel dimensions, whatever the natural size
\* of the uploaded image.
C11_BaseAndMaskSameSize ==
    \A i \in 1..Len(requests) :
        requests[i].mode = "inpainting" => requests[i].image = requests[i].mask

\* handleGenerateImage has just built its canvases and handed one to
\* createPreview: the last decode in flight is its own.
GenerateBuilds ==
    lastEvent'.op = "generate" /\ Len(previews') = Len(previews) + 1

\* C12: the composite (or, in inpainting mode, the base image and the mask)
\* that handleGenerateImage builds has the natural width and height of the
\* base image, whatever size the image is displayed at and whatever the
\* pixel size of the sketch canvas.
C12_BuiltAtNaturalSize ==
    [][GenerateBuilds
         => LET built == previews'[Len(previews')]
                natural == <<imageRef.naturalWidth, imageRef.naturalHeight>>
            IN /\ built.input = natural
               /\ built.useInpainting => built.mask = natural]_vars

\* Generate was clicked in inpainting mode after a resize: the image, its
\* displayed size and the sketch canvas have three different widths, and
\* base image and mask were built at the natural one.
C12_Witness ==
    /\ lastEvent.op = "generate"
    /\ previews # <<>>
    /\ previews[Len(previews)].caller = "generate"
    /\ previews[Len(previews)].useInpainting
    /\ previews[Len(previews)].mask = <<imageRef.naturalWidth, imageRef.naturalHeight>>
    /\ imageRef.clientWidth # imageRef.naturalWidth
    /\ canvasSize.width # imageRef.clientWidth
    /\ canvasSize.width # imageRef.naturalWidth

\* The scenario of C13: an 800x600 image displayed at 400x300 CSS pixels
\* and a pointer-down at the CSS offset (100,100).
Scenario13 ==
    /\ lastEvent.op = "pointerdown"
    /\ imageRef = [naturalWidth |-> 800, naturalHeight |-> 600,
                   clientWidth |-> 400, clientHeight |-> 300]
    /\ coords.at = <<100, 100>>

PreviewLoads == lastEvent'.op = "previewload"
PreviewInput == previews[lastEvent'.cell].input
PreviewOutput == requests'[Len(requests')].image

\* C14 (as claimed): createPreview of a WxH image whose larger side
\* exceeds 1024 gives an image whose larger side is 1024 and whose smaller
\* side is scaled by the same factor, to within a pixel; any other image
\* keeps exactly WxH.
C14_PreviewDimensions ==
    [][PreviewLoads
         => LET larger == Max(PreviewInput[1], PreviewInput[2])
                wide == PreviewInput[1] >= PreviewInput[2]
                long == IF wide THEN PreviewOutput[1] ELSE PreviewOutput[2]
                short == IF wide THEN PreviewOutput[2] ELSE PreviewOutput[1]
                side == Min(PreviewInput[1], PreviewInput[2])
            IN IF larger > MAX_PREVIEW_DIMENSION
               THEN /\ long = MAX_PREVIEW_DIMENSION
                    /\ short * larger <= side * MAX_PREVIEW_DIMENSION
                    /\ side * MAX_PREVIEW_DIMENSION < (short + 1) * larger
               ELSE PreviewOutput = PreviewInput]_vars

\* A createPreview has just settled: the decode it belonged to and the
\* fetch its caller went on to.
PreviewSettles == lastEvent'.op \in {"previewload", "previewerror"}
Settled == previews[lastEvent'.cell]
Posted15 == requests'[Len(requests')]

\* C15: a createPreview settles once and never fails its caller: at the
\* end of its decode it is gone from the decodes in flight, its caller goes
\* on to exactly one fetch, with the re-encoded preview after a successful
\* decode and with the input as it was given after a failed one, and no
\* exception leaves the handler.
C15_PreviewSettlesOnce ==
    [][PreviewSettles
         => /\ previews' = Without(previews, lastEvent'.cell)
            /\ Len(requests') = Len(requests) + 1
            /\ SubSeq(requests', 1, Len(requests)) = requests
            /\ Posted15.caller = Settled.caller
            /\ lastEvent'.op = "previewload"
                 => /\ Posted15.reencoded
                    /\ Posted15.image = PreviewSize(Settled.input[1], Settled.input[2])
            /\ lastEvent'.op = "previewerror"
                 => /\ ~Posted15.reencoded
                    /\ Posted15.image = Settled.input
            /\ uncaught' = uncaught]_vars

\* The decode of a 2000x1000 composite failed and the fetch carries the
\* composite as it was built, not a preview of it.
C15_Witness ==
    /\ lastEvent.op = "previewerror"
    /\ requests # <<>>
    /\ requests[Len(requests)].caller = "generate"
    /\ ~requests[Len(requests)].reencoded
    /\ requests[Len(requests)].image = <<2000, 1000>>

\* C16: pointer-up, pointer-leave and pointer-cancel do the same thing,
\* given by the state before alone: on an active stroke each ends it
\* (active false, path closed, blend mode source-over, hasSketch telling
\* whether the raster has ink) and touches neither raster nor undo stack
\* nor tool; with no stroke active each changes nothing; after any of them
\* no stroke is active, so a second end event changes nothing more.
C16_EndEventsAlike ==
    [][lastEvent'.op \in EndEvents
         => /\ ~drawingState'.active
            /\ UNCHANGED <<raster, undoStackRef, brushVars, strokeStyle, canUndo,
                           imageSrc, pendingRestores>>
            /\ IF drawingState.active
               THEN /\ gco' = "source-over"
                    /\ hasSketch' = HasInk(raster')
                    /\ path' = IF path = <<>> THEN path ELSE Append(path, path[1])
               ELSE UNCHANGED <<gco, hasSketch, path, drawingState>>]_vars

\* An eraser stroke over two cells of an inked raster was ended by
\* pointer-cancel.
C16_Witness ==
    /\ lastEvent.op = "pointercancel"
    /\ ~drawingState.active
    /\ tool = "eraser"
    /\ Len(path) >= 3 /\ path[Len(path)] = path[1]
    /\ gco = "source-over"
    /\ hasSketch

\* C17 (as claimed): while the reads of the sketch canvas throw, no handler
\* lets an exception out: a pointer-down (snapshot or eyedropper sample)
\* and a Generate click (mask or composite) leave raster, undo stack, tool
\* and stroke-active flag as they were, and the end of a stroke and the
\* end of a restore find no ink.
C17_RasterFailuresCaught ==
    [][(rasterThrows /\ rasterThrows')
         => /\ uncaught' = uncaught
            /\ lastEvent'.op \in {"pointerdown", "generate"}
                 => UNCHANGED <<raster, undoStackRef, tool, drawingState>>
            /\ (lastEvent'.op \in EndEvents /\ drawingState.active) => ~hasSketch'
            /\ lastEvent'.op = "restored" => ~hasSketch']_vars

\* The texts the page shows while a collaborator is at work.
Working ==
    {"Thinking of playful ideas...", "Generating AI concept image...",
     "Generating AI concept image (no sketch guidance)...",
     "Analyzing the image...", "Scoring interventions..."}

\* The status text of the request a response has just come for.
StatusOf(caller) ==
    CASE caller = "prompt" -> response'
      [] caller \in {"generate", "refine"} -> imageGenerationStatus'
      [] caller = "describe" -> autoDescriptionStatus'
      [] caller = "score" -> scoreStatus'

\* C18: when a fetch of the page fails (a non-2xx response with or without
\* an error text, a 2xx response without the expected field, an exception
\* of fetch or of the JSON reading), whether for the prompt, the concept
\* image, a refinement, the description or the scores, the handler ends
\* with a status text that is neither empty nor the text shown while
\* working, no exception leaves it, and the sketch (raster, undo stack,
\* stroke, tool, brush colour and opacity, ink and undo flags) is as before.
C18_FailuresBecomeStatus ==
    [][lastEvent'.op \in Failures
         => /\ StatusOf(requests[lastEvent'.cell].caller) \notin Working \cup {""}
            /\ uncaught' = uncaught
            /\ requests' = Without(requests, lastEvent'.cell)
            /\ UNCHANGED sketchVars]_vars

\* The fetch of a refinement threw while a stroke was being drawn over the
\* sketch.
C18_Witness ==
    /\ lastEvent.op = "throws"
    /\ imageGenerationStatus = "Failed to generate the concept image."
    /\ refinementLog = 1
    /\ drawingState.active
    /\ undoStackRef # <<>>
    /\ ~uncaught

\* The fetches in flight that the action named caller started.
FetchesOf(caller) == Len(SelectSeq(requests, LAMBDA r : r.caller = caller))

\* C19 (as claimed): of each action that calls a collaborator (the prompt,
\* the concept image, a refinement) at most one fetch is in flight at any
\* time.
C19_OneInFlightPerAction ==
    \A caller \in {"prompt", "generate", "refine"} : FetchesOf(caller) <= 1

\* What C20 counts as a request that fails validation: the wrong method,
\* keys that are missing, or a prompt or image data the route needs and
\* the request lacks.
NeedsKeys(route) == route # "reverse-geocode"
NeedsPrompt(route) == route \in {"generate-visual-concept", "generate-play-prompt"}
LacksImages(route, req) ==
    \/ route = "describe-image" /\ req.imageData = ""
    \/ route = "generate-visual-concept" /\ req.mode = "composite"
          /\ req.imageData = ""
    \/ route = "generate-visual-concept" /\ req.mode = "inpainting"
          /\ (req.baseImageData = "" \/ req.maskData = "")
FailsValidation(route, req, keys) ==
    \/ req.method # (IF route = "reverse-geocode" THEN "GET" ELSE "POST")
    \/ NeedsKeys(route) /\ ~keys
    \/ NeedsPrompt(route) /\ req.prompt = ""
    \/ LacksImages(route, req)

\* C20 (as claimed): an invocation of an API route never makes more than
\* one upstream call and never sends more than one response, has sent
\* exactly one when it is over, and makes no upstream call when its request
\* fails validation (wrong method, missing key, missing prompt or image
\* data).
C20_ProxySingleShot ==
    /\ proxy.calls <= 1
    /\ Len(proxy.sent) <= 1
    /\ proxy.pc = "done" => Len(proxy.sent) = 1
    /\ (proxy.pc # "idle" /\ FailsValidation(proxy.route, proxy.req, proxy.keys))
         => proxy.calls = 0

\* An answer of the scorer as C21 describes it: matches with three numeric
\* averages, or the no-match signal.
AllNumeric(averages) ==
    \A name \in {"cost", "ease", "effectiveness"} : averages[1][name] # Null
AsDescribed(data) ==
    \/ data = NoMatch
    \/ data.matches > 0 /\ data.averages # Null /\ AllNumeric(data.averages)

\* C21 (as claimed): whatever the table holds, the scorer answers the
\* scoring request in flight either with a match count above 0 and numeric
\* averages of cost, ease and effectiveness or with matches = 0 and
\* averages = null, and a summary the client has stored for display holds
\* three numbers.
C21_AveragesNumeric ==
    /\ \A i \in 1..Len(requests) :
          requests[i].caller = "score" =>
              \A records \in lim.tables :
                  AsDescribed(Score(records, requests[i].prompt,
                                    requests[i].location))
    /\ scoreSummary # NoSummary => AllNumeric(scoreSummary.averages)

\* The blend mode handlePointerDown sets for the tool (lines 1035-1036).
BlendOf(id) == IF id = "eraser" THEN "destination-out" ELSE "source-over"

\* C22 (as claimed): the pointer-down that begins a stroke sets the blend
\* mode from the tool alone, destination-out for the eraser and source-over
\* for the brush; while the stroke stays active no step but another
\* pointer-down changes it, so every pointer-move of the stroke draws with
\* it; and whenever no stroke is active the blend mode is source-over.
C22_BlendFixedForStroke ==
    [][/\ StrokeBegins => gco' = BlendOf(tool)
       /\ (drawingState.active /\ drawingState'.active
             /\ lastEvent'.op # "pointerdown") => gco' = gco
       /\ ~drawingState'.active => gco' = "source-over"]_vars

\* C23 (as claimed): a stroke, from its first pointer-down to its end
\* event, pushes exactly one snapshot: the pointer-down that begins it
\* pushes one, and a pointer-down that arrives while the stroke is active
\* leaves the undo stack as it is, so no snapshot holds a stroke that is
\* partially drawn.
C23_OneSnapshotPerStroke ==
    [][/\ (StrokeBegins /\ ~drawingState.active)
            => undoStackRef' = saveCanvasState(undoStackRef, raster)
       /\ (lastEvent'.op = "pointerdown" /\ drawingState.active)
            => undoStackRef' = undoStackRef]_vars

\* C24 (as claimed): when a clear, an upload or a pointer-down has happened
\* since the undo that started a restore, the decode callback of that
\* restore leaves the raster as that later operation left it.  A restore
\* that is pending right after such an operation was started before it.
C24_RestoreNeverOverwrites ==
    [][(lastEvent'.op = "restored"
          /\ lastEvent.op \in {"clear", "upload", "loaded", "pointerdown"})
         => raster' = raster]_vars

\* C25 (as claimed): after undos whose restores overlapped, with no other
\* operation on the sketch since the first of them and the blend mode at
\* source-over, the raster is, once the last decode callback has fired,
\* the snapshot the most recent undo popped, whatever the order of the
\* callbacks.
C25_LatestUndoWins ==
    [][(/\ lastEvent'.op = "restored"
        /\ pendingRestores' = <<>>
        /\ lastEvent.run.n >= 2
        /\ gco = "source-over")
         => raster' = lastEvent.run.last]_vars

\* C26 (as claimed): whenever the decode callback of a restore fires on
\* the canvas it was started on, the raster is afterwards the snapshot of
\* that restore, pixel for pixel, whatever the tool is and whether or not a
\* stroke is active.
C26_RestoreExact ==
    [][lastEvent'.op = "restored"
         => \E i \in 1..Len(pendingRestores) :
              /\ pendingRestores' = Without(pendingRestores, i)
              /\ pendingRestores[i].live => raster' = pendingRestores[i].snapshot]_vars

\* C27 (as claimed): in every state in which no stroke is active and no
\* restore is pending, hasSketch tells whether the raster holds a pixel
\* whose alpha is above 0.  It holds while one file is read at a time
\* (Spec) and fails when the read of a second file ends after a stroke on
\* the first image (SpecReads).
C27_InkFlagAtRest ==
    (~drawingState.active /\ pendingRestores = <<>>)
        => (hasSketch <=> \E c \in Cells : raster[c].a > 0)

\* C28 (as claimed): canUndo is true exactly when the undo stack holds a
\* snapshot.
C28_CanUndoIffStack == canUndo <=> Len(undoStackRef) > 0

\* An undo has just popped the last snapshot and turned the flag off.
C28_Witness ==
    /\ lastEvent.op = "undo"
    /\ pendingRestores # <<>>
    /\ undoStackRef = <<>>
    /\ ~canUndo

\* The concept requests under way: previews being made for them and
\* fetches in flight.
ConceptsInFlight ==
    Len(SelectSeq(previews, LAMBDA p : p.caller \in {"generate", "refine"}))
        + Len(SelectSeq(requests, LAMBDA r : r.caller \in {"generate", "refine"}))

\* C29 (as claimed): when concept requests overlapped and the answers of
\* all of them have arrived, in whatever order, the generated image and the
\* status on display are the ones the answer of the most recently issued
\* request set.
C29_LatestRequestShown ==
    (ConceptsInFlight = 0 /\ used.issued > 0) => used.shown = used.issued

\* C30 (as claimed): a scoring request in flight is always the one for
\* the imagePrompt and the location of the moment, because a change of
\* either aborts the request before it and the outcome of an aborted
\* request changes neither scoreSummary nor scoreStatus; a summary on
\* display was computed for the pair of the moment; and while the prompt is
\* blank there is no summary, no status and no scoring request.
C30_ScoreFollowsLatestPair ==
    /\ FetchesOf("score") <= 1
    /\ \A i \in 1..Len(requests) :
          requests[i].caller = "score"
              => /\ requests[i].prompt = imagePrompt
                 /\ requests[i].location = location
                 /\ scoreStatus = "Scoring interventions..."
    /\ (scoreStatus = "" /\ scoreSummary # NoSummary)
          => /\ scoreSummary.prompt = imagePrompt
             /\ scoreSummary.location = location
    /\ trim(imagePrompt) = ""
          => /\ scoreSummary = NoSummary
             /\ scoreStatus = ""
             /\ FetchesOf("score") = 0

\* The location has just changed while a scoring request was in flight:
\* that request is gone and the one for the new pair is under way.
C30_Witness ==
    /\ lastEvent.op = "location"
    /\ lastEvent.cell = 1
    /\ FetchesOf("score") = 1
    /\ trim(imagePrompt) # ""
    /\ scoreStatus = "Scoring interventions..."

====
